---- MODULE Spec2Model ----
(***************************************************************************)
(* A model of the jsonapi package (src/jsonapi/jsonapi.go): the resolution *)
(* of a record type's tagged fields (parseTags), the reflective value      *)
(* accessors (derefValue, derefInput, fieldByIndex, initFieldByIndex) and  *)
(* the mapping of resolved fields to and from a Resource document.         *)
(*                                                                         *)
(* Conventions: index paths are 1-based here (Go's are 0-based); a struct  *)
(* tag is the sequence of its comma-separated tokens, so strings.Cut(s,    *)
(* ",") is Head/Tail and the empty string is the empty sequence.           *)
(***************************************************************************)
EXTENDS Integers, Sequences, FiniteSets, TLC

VARIABLES
    \* ---- field resolution (parseTags) ----
    tt,        \* the record's type table: type name -> sequence of field declarations
    nilAt,     \* the instance: the embedded-pointer sites <<type, index>> that hold nil
    op,        \* the entry point running: "marshal" or "unmarshal"
    pc,        \* position of the call
    next,      \* parseTags: the queue of structElems of the next level
    fields,    \* parseTags: the fields collected so far (before the sort)
    types,     \* parseTags: the set of visited struct types
    level,     \* parseTags: number of levels processed
    sorted,    \* parseTags: fields as slices.SortFunc left them
    resolved,  \* parseTags: the returned list
    err,       \* the error returned ("" for nil)
    doc,       \* marshal: the sections of the Resource written
    written    \* unmarshal: the index paths written

VARIABLES
    \* ---- reference chains (derefValue, derefInput, the entry points) ----
    heap,      \* address -> cell: its type and what it holds
    heap0,     \* the heap the call started with
    root,      \* the argument handed to the entry point
    rop,       \* the entry point called
    recv,      \* whether the hook type M has a value or a pointer receiver
    rpc,       \* position of the call
    rloop,     \* which dereference loop ran last: "root", "anon", "path" or "field"
    ru,        \* dereference loop: the value it started from (u)
    rv,        \* dereference loop: the current value (v)
    rroot,     \* the record the root dereferences to
    rcur,      \* parseTags: the struct of the current level
    rlvl,      \* parseTags: the current level
    rfield,    \* the length of the resolved field's index path (0: no field)
    rpos,      \* fieldByIndex / initFieldByIndex: indexes followed so far
    rres,      \* what the call returned
    rsteps     \* iterations of the running dereference loop

VARIABLES
    \* ---- field values and the Resource ----
    rec,       \* the record marshaled: its resolved fields, each a tag and a value
    mop,       \* the pair of entry points: "Marshal" (and Unmarshal) or "Format" (and Deformat)
    mpc,       \* position: "start", "marshaled", "done"
    mdoc,      \* the Resource the fields were written to
    mwire,     \* the JSON document MarshalResource returned
    mout,      \* the record unmarshaled into
    mres       \* what the unmarshaling call returned

VARIABLES
    \* ---- field access through embedded pointers (fieldByIndex, initFieldByIndex) ----
    arec,      \* the record: its resolved fields, each a tag, a path and a value
    aop,       \* the entry point called
    ain,       \* the Resource an unmarshaling call reads
    apc,       \* position: "start" or "done"
    aout,      \* the record after the call
    adoc,      \* the Resource a marshaling call returned: <<r>>, or <<>> for nil
    ares,      \* what the call returned
    ai         \* the number of fields the loop over the fields took up

resolveVars == <<tt, nilAt, op, pc, next, fields, types, level, sorted, resolved, err, doc, written>>

refVars == <<heap, heap0, root, rop, recv, rpc, rloop, ru, rv, rroot, rcur, rlvl, rfield, rpos, rres, rsteps>>

mapVars == <<rec, mop, mpc, mdoc, mwire, mout, mres>>

accVars == <<arec, aop, ain, apc, aout, adoc, ares, ai>>

vars == <<resolveVars, refVars, mapVars, accVars>>

----------------------------------------------------------------------------
(* Strings: cmp.Compare on the strings the model uses (byte-wise order).   *)

StrOrder == <<"", "F", "X", "Y", "attr", "id", "j", "meta", "n", "omitempty", "rel", "t">>

StrIndex(s) == CHOOSE i \in 1..Len(StrOrder) : StrOrder[i] = s

cmpCompare(a, b) == IF a < b THEN -1 ELSE IF a > b THEN 1 ELSE 0

cmpStrings(a, b) == cmpCompare(StrIndex(a), StrIndex(b))

\* strings.Cut(s, ","): the first token and the rest
Cut(s) == IF s = <<>> THEN [fst |-> "", rest |-> <<>>]
          ELSE [fst |-> Head(s), rest |-> Tail(s)]

Range(s) == {s[i] : i \in 1..Len(s)}

----------------------------------------------------------------------------
(* Bounds of the model.                                                    *)

MaxRootFields == 2      \* number of fields of the root record type
MaxLevels == 4          \* cap on the breadth-first levels explored
NCells == 2             \* number of heap cells
MaxFields == 1          \* number of fields of a record whose values are mapped

----------------------------------------------------------------------------
(* Record types.  A field declaration carries what reflect.StructField     *)
(* gives parseTags: the declared name, whether it is exported and          *)
(* embedded, the jsonapi and json tags, and its type (kind after following *)
(* pointers, whether it is a pointer, and the struct type it names).       *)

Decl(name, exported, anon, hasTag, tag, json, kind, ptr, elem) ==
    [name |-> name, exported |-> exported, anon |-> anon, hasTag |-> hasTag,
     tag |-> tag, json |-> json, kind |-> kind, ptr |-> ptr, elem |-> elem]

LeafDecls == {
    Decl("F",  TRUE, FALSE, TRUE,  <<"attr", "X">>, <<>>,    "int", FALSE, ""),
    Decl("G",  TRUE, FALSE, FALSE, <<>>,            <<"X">>, "int", FALSE, ""),
    Decl("X",  TRUE, FALSE, FALSE, <<>>,            <<>>,    "int", FALSE, ""),
    Decl("Id", TRUE, FALSE, TRUE,  <<"id", "t">>,   <<>>,    "int", FALSE, ""),
    Decl("E",  TRUE, FALSE, TRUE,  <<"xxx", "X">>,  <<>>,    "int", FALSE, "") }

TypeNames == {"T", "A", "B", "C"}

\* the struct types a type may embed
Embeds(t) == CASE t = "T" -> {"A", "B"}
               [] t = "A" -> {"C"}
               [] t = "B" -> {"C"}
               [] OTHER   -> {}

EmbedDecls(t) ==
    {Decl(e, TRUE, TRUE, FALSE, <<>>, <<>>, "struct", p, e) : e \in Embeds(t), p \in BOOLEAN}

DistinctNames(b) == \A i, j \in 1..Len(b) : i # j => b[i].name # b[j].name

SeqsUpTo(S, n) == UNION {[1..k -> S] : k \in 1..n}

RootBodies == {b \in SeqsUpTo(LeafDecls \cup EmbedDecls("T"), MaxRootFields) : DistinctNames(b)}

SubBodies(t) == {<<l>> : l \in LeafDecls}
                \cup {<<l, e>> : l \in LeafDecls, e \in EmbedDecls(t)}

EmbeddedTypes(b) == {b[i].elem : i \in {j \in 1..Len(b) : b[j].anon /\ b[j].kind = "struct"}}

\* only the types the root reaches are part of the record's type
WellFormed(table) ==
    LET r1 == {"T"} \cup EmbeddedTypes(table["T"])
        r2 == r1 \cup UNION {EmbeddedTypes(table[t]) : t \in r1}
        r3 == r2 \cup UNION {EmbeddedTypes(table[t]) : t \in r2}
    IN \A t \in TypeNames : (t \in r3) <=> (table[t] # <<>>)

PtrSites(table) ==
    UNION {{<<t, i>> : i \in {j \in 1..Len(table[t]) : table[t][j].anon /\ table[t][j].ptr}}
           : t \in TypeNames}

----------------------------------------------------------------------------
(* Tag parsing.                                                            *)

Tag(typ, name, namePrec, rscType, quote, omitempty) ==
    [typ |-> typ, name |-> name, namePrec |-> namePrec, rscType |-> rscType,
     quote |-> quote, omitempty |-> omitempty]

NoTag == Tag("", "", 0, "", FALSE, FALSE)

splitTypeAndOpts(f) ==
    IF ~f.hasTag THEN [typ |-> "", opts |-> <<>>, ok |-> FALSE]
    ELSE [typ |-> Cut(f.tag).fst, opts |-> Cut(f.tag).rest, ok |-> TRUE]

splitFirstAndOpts(opts) == Cut(opts)

\* splitNameAndOpts with the json tag consulted before the jsonapi tag
splitNameAndOpts_JsonFirst(f, opts) ==
    LET c == splitFirstAndOpts(opts)
        j == Cut(f.json).fst
    IN IF j # "" THEN [name |-> j, prec |-> 2, opts |-> c.rest]
       ELSE IF c.fst # "" THEN [name |-> c.fst, prec |-> 3, opts |-> c.rest]
       ELSE [name |-> f.name, prec |-> 1, opts |-> c.rest]

splitNameAndOpts(f, opts) ==
    LET c == splitFirstAndOpts(opts)
        j == Cut(f.json).fst
    IN IF c.fst # "" THEN [name |-> c.fst, prec |-> 3, opts |-> c.rest]
       ELSE IF j # "" THEN [name |-> j, prec |-> 2, opts |-> c.rest]
       ELSE [name |-> f.name, prec |-> 1, opts |-> c.rest]

optFlags(opts) == [omitempty |-> "omitempty" \in Range(opts), quote |-> "string" \in Range(opts)]

parseIdTag(f, opts) ==
    LET c == splitFirstAndOpts(opts)
        o == optFlags(c.rest)
    IN IF c.fst = "" THEN [err |-> "TagErr", tag |-> NoTag]
       ELSE [err |-> "", tag |-> Tag("id", "", 0, c.fst, o.quote, o.omitempty)]

parseAttrTag(f, opts) ==
    LET n == splitNameAndOpts(f, opts)
        o == optFlags(n.opts)
    IN [err |-> "", tag |-> Tag("attr", n.name, n.prec, "", o.quote, o.omitempty)]

parseMetaTag(f, opts) ==
    LET n == splitNameAndOpts(f, opts)
        o == optFlags(n.opts)
    IN [err |-> "", tag |-> Tag("meta", n.name, n.prec, "", o.quote, o.omitempty)]

\* parseRelTag without the test of the resource type
parseRelTag_NoCheck(f, opts) ==
    LET n == splitNameAndOpts(f, opts)
        c == splitFirstAndOpts(n.opts)
        o == optFlags(c.rest)
    IN [err |-> "", tag |-> Tag("rel", n.name, n.prec, c.fst, o.quote, o.omitempty)]

parseRelTag(f, opts) ==
    LET n == splitNameAndOpts(f, opts)
        c == splitFirstAndOpts(n.opts)
        o == optFlags(c.rest)
    IN IF c.fst = "" THEN [err |-> "TagErr", tag |-> NoTag]
       ELSE [err |-> "", tag |-> Tag("rel", n.name, n.prec, c.fst, o.quote, o.omitempty)]

\* parseTag with the tag parsed before the kind of the field is looked at
parseTag_TagFirst(f, typ, opts) ==
    LET r == CASE typ = "id"   -> parseIdTag(f, opts)
               [] typ = "attr" -> parseAttrTag(f, opts)
               [] typ = "meta" -> parseMetaTag(f, opts)
               [] typ = "rel"  -> parseRelTag(f, opts)
               [] OTHER        -> [err |-> "TagErr", tag |-> NoTag]
    IN IF r.err # "" THEN r
       ELSE IF f.kind \in {"func", "chan", "complex"} THEN [err |-> "UnsupportedTypeErr", tag |-> NoTag]
       ELSE r

parseTag(f, typ, opts) ==
    IF f.kind \in {"func", "chan", "complex"} THEN [err |-> "UnsupportedTypeErr", tag |-> NoTag]
    ELSE CASE typ = "id"   -> parseIdTag(f, opts)
           [] typ = "attr" -> parseAttrTag(f, opts)
           [] typ = "meta" -> parseMetaTag(f, opts)
           [] typ = "rel"  -> parseRelTag(f, opts)
           [] OTHER        -> [err |-> "TagErr", tag |-> NoTag]

----------------------------------------------------------------------------
(* parseTags: the breadth-first search over the record.                    *)

structElem(t, ok, idxs) == [t |-> t, ok |-> ok, idxs |-> idxs]

Field(tag, idxs) == [tag |-> tag, idxs |-> idxs]

\* currentCount[t]: the number of elements of the current level of type t
currentCount(current, t) == Cardinality({k \in 1..Len(current) : current[k].t = t})

\* derefType(f.Type).Kind()
derefType(f) == f.kind

\* the kind of derefValue(c.v.Field(i)) for an embedded field of a live value:
\* a nil pointer dereferences to the invalid Value
derefEmbedded(c, i) ==
    LET f == tt[c.t][i]
    IN IF f.ptr /\ <<c.t, i>> \in nilAt THEN "invalid" ELSE f.kind

\* scanField that queues every embedded struct, tagged or not
scanField_Descend(st, c, i) ==
    LET f == tt[c.t][i]
        s == splitTypeAndOpts(f)
        fIdxs == Append(c.idxs, i)
        typ == IF s.ok THEN s.typ ELSE "attr"
        r == parseTag(f, typ, s.opts)
    IN IF f.anon /\ derefType(f) = "struct"
       THEN [st EXCEPT !.next = Append(@, structElem(f.elem, c.ok /\ derefEmbedded(c, i) = "struct", fIdxs))]
       ELSE IF ~s.ok /\ f.anon THEN st
       ELSE IF ~f.exported /\ ~f.anon THEN st
       ELSE IF typ = "-" THEN st
       ELSE IF r.err # "" THEN [st EXCEPT !.err = r.err]
       ELSE [st EXCEPT !.fields = Append(@, Field(r.tag, fIdxs))]

\* the body of the loop over the fields of one struct (jsonapi.go 450-514)
scanField(st, c, i) ==
    LET f == tt[c.t][i]
        s == splitTypeAndOpts(f)
        fIdxs == Append(c.idxs, i)
        typ == IF s.ok THEN s.typ ELSE "attr"
        r == parseTag(f, typ, s.opts)
    IN IF ~s.ok /\ f.anon
       THEN IF c.ok /\ derefEmbedded(c, i) = "struct"
            THEN [st EXCEPT !.next = Append(@, structElem(f.elem, TRUE, fIdxs))]
            ELSE IF c.ok /\ derefEmbedded(c, i) # "invalid"
            THEN st
            ELSE IF derefType(f) = "struct"
            THEN [st EXCEPT !.next = Append(@, structElem(f.elem, FALSE, fIdxs))]
            ELSE st
       ELSE IF ~f.exported /\ ~f.anon THEN st
       ELSE IF typ = "-" THEN st
       ELSE IF r.err # "" THEN [st EXCEPT !.err = r.err]
       ELSE [st EXCEPT !.fields = Append(@, Field(r.tag, fIdxs))]

RECURSIVE scanFields(_, _, _)
scanFields(st, c, i) ==
    IF st.err # "" \/ i > Len(tt[c.t]) THEN st
    ELSE scanFields(scanField(st, c, i), c, i + 1)

\* one element of the current level (jsonapi.go 438-515)
scanElem(st, current, c) ==
    IF ~c.ok /\ (c.t \in st.types \/ currentCount(current, c.t) > 1) THEN st
    ELSE scanFields([st EXCEPT !.types = @ \cup {c.t}], c, 1)

RECURSIVE scanLevel(_, _, _)
scanLevel(st, current, k) ==
    IF st.err # "" \/ k > Len(current) THEN st
    ELSE scanLevel(scanElem(st, current, current[k]), current, k + 1)

\* one iteration of the loop "for len(next) > 0" (jsonapi.go 423-516)
bfsLevel(st) == scanLevel([st EXCEPT !.next = <<>>], st.next, 1)

----------------------------------------------------------------------------
(* parseTags: the sort and the elimination of overridden fields.           *)

\* cmpFields without its last key, the name precedence
cmpFields_NoPrec(a, b) ==
    IF cmpStrings(a.tag.typ, b.tag.typ) # 0 THEN cmpStrings(a.tag.typ, b.tag.typ)
    ELSE IF cmpStrings(a.tag.name, b.tag.name) # 0 THEN cmpStrings(a.tag.name, b.tag.name)
    ELSE cmpCompare(Len(a.idxs), Len(b.idxs))

\* the comparison handed to slices.SortFunc (jsonapi.go 519-533)
cmpFields(a, b) ==
    IF cmpStrings(a.tag.typ, b.tag.typ) # 0 THEN cmpStrings(a.tag.typ, b.tag.typ)
    ELSE IF cmpStrings(a.tag.name, b.tag.name) # 0 THEN cmpStrings(a.tag.name, b.tag.name)
    ELSE IF cmpCompare(Len(a.idxs), Len(b.idxs)) # 0 THEN cmpCompare(Len(a.idxs), Len(b.idxs))
    ELSE 0 - cmpCompare(a.tag.namePrec, b.tag.namePrec)

Remove(s, i) == SubSeq(s, 1, i - 1) \o SubSeq(s, i + 1, Len(s))

\* slices.SortFunc is not stable: every arrangement of fs that is ordered
\* by cmpFields is a possible outcome
RECURSIVE SortFunc(_)
SortFunc(fs) ==
    IF fs = <<>> THEN {<<>>}
    ELSE UNION {{<<fs[i]>> \o rest : rest \in SortFunc(Remove(fs, i))}
                : i \in {k \in 1..Len(fs) : \A j \in 1..Len(fs) : cmpFields(fs[k], fs[j]) <= 0}}

\* getDominantField without the tie test: the first field always wins
getDominantField_First(fs) ==
    IF Len(fs) = 0 THEN [ok |-> FALSE, field |-> Field(NoTag, <<>>)]
    ELSE [ok |-> TRUE, field |-> fs[1]]

getDominantField(fs) ==
    IF Len(fs) = 0 THEN [ok |-> FALSE, field |-> Field(NoTag, <<>>)]
    ELSE IF Len(fs) = 1 THEN [ok |-> TRUE, field |-> fs[1]]
    ELSE IF Len(fs[1].idxs) = Len(fs[2].idxs) /\ fs[1].tag.namePrec = fs[2].tag.namePrec
    THEN [ok |-> FALSE, field |-> Field(NoTag, <<>>)]
    ELSE [ok |-> TRUE, field |-> fs[1]]

\* the length of the run of fields from i on that have the type of fs[i]
RECURSIVE sameTypeRun(_, _, _)
sameTypeRun(fs, i, n) ==
    IF i + n <= Len(fs) /\ fs[i + n].tag.typ = fs[i].tag.typ THEN sameTypeRun(fs, i, n + 1) ELSE n

\* sameNameRun with the name test inverted: the run ends at the first equal name
RECURSIVE sameNameRun_Inverted(_, _, _, _)
sameNameRun_Inverted(fs, j, end, n) ==
    IF j + n < end /\ fs[j + n].tag.name # fs[j].tag.name
    THEN sameNameRun_Inverted(fs, j, end, n + 1) ELSE n

\* the length of the run of fields from j on, before end, that have the name of fs[j]
RECURSIVE sameNameRun(_, _, _, _)
sameNameRun(fs, j, end, n) ==
    IF j + n < end /\ fs[j + n].tag.name = fs[j].tag.name THEN sameNameRun(fs, j, end, n + 1) ELSE n

RECURSIVE filterNames(_, _, _)
filterNames(fs, j, end) ==
    IF j >= end THEN <<>>
    ELSE LET nName == sameNameRun(fs, j, end, 1)
             d == getDominantField(SubSeq(fs, j, j + nName - 1))
         IN (IF d.ok THEN <<d.field>> ELSE <<>>) \o filterNames(fs, j + nName, end)

\* the filter loop (jsonapi.go 537-567)
RECURSIVE filterFields(_, _)
filterFields(fs, i) ==
    IF i > Len(fs) THEN <<>>
    ELSE LET nType == sameTypeRun(fs, i, 1)
         IN filterNames(fs, i, i + nType) \o filterFields(fs, i + nType)

----------------------------------------------------------------------------
(* The mapping of the resolved fields.  In this part of the model every    *)
(* field is a plain int without omitempty, so marshalField always writes   *)
(* its key and unmarshalField writes the field whenever the document has   *)
(* its key; the values are modelled with the document mapper further down. *)

EmptyDoc == [type |-> "", id |-> FALSE, attributes |-> {}, relationships |-> {}, meta |-> {}]

\* a document that carries an id and every key under every section
FullDoc == [type |-> "t", id |-> TRUE, attributes |-> Range(StrOrder),
            relationships |-> Range(StrOrder), meta |-> Range(StrOrder)]

\* marshalField (jsonapi.go 296-308): the section and key a field is written to
marshalKey(r, f) ==
    CASE f.tag.typ = "id"   -> [r EXCEPT !.type = f.tag.rscType, !.id = TRUE]
      [] f.tag.typ = "attr" -> [r EXCEPT !.attributes = @ \cup {f.tag.name}]
      [] f.tag.typ = "rel"  -> [r EXCEPT !.relationships = @ \cup {f.tag.name}]
      [] f.tag.typ = "meta" -> [r EXCEPT !.meta = @ \cup {f.tag.name}]
      [] OTHER              -> r

RECURSIVE marshalKeys(_, _, _)
marshalKeys(r, fs, i) ==
    IF i > Len(fs) THEN r ELSE marshalKeys(marshalKey(r, fs[i]), fs, i + 1)

\* unmarshalField (jsonapi.go 378-390): whether the document has the field's key
unmarshalKey(r, f) ==
    CASE f.tag.typ = "id"   -> r.id
      [] f.tag.typ = "attr" -> f.tag.name \in r.attributes
      [] f.tag.typ = "rel"  -> f.tag.name \in r.relationships
      [] f.tag.typ = "meta" -> f.tag.name \in r.meta
      [] OTHER              -> FALSE

unmarshalKeys(r, fs) == {fs[i].idxs : i \in {k \in 1..Len(fs) : unmarshalKey(r, fs[k])}}

(***************************************************************************)
(* Reference chains.  A heap of NCells cells; a reflect.Value is the       *)
(* triple Go compares with ==: its type, its pointer word and its flags.   *)
(* The types are any (interface{}), int, T = struct{ A any `jsonapi:       *)
(* "attr,a"` }, TI = struct{ I } with I an interface type (written any     *)
(* here), M = struct{} implementing the marshaler and unmarshaler hooks,   *)
(* and pointers to these.  The only field of a T or TI cell lives at the   *)
(* cell's address, as field 0 of a Go struct does.                         *)
(***************************************************************************)
NIL == 0

Addr == 1..NCells

Typ(s, b) == [stars |-> s, base |-> b]

TAny == Typ(0, "any")

PtrTo(t) == Typ(t.stars + 1, t.base)

ElemType(t) == Typ(t.stars - 1, t.base)

\* what a cell or an interface holds
Holds(k, t, a) == [k |-> k, typ |-> t, to |-> a]

Nothing == Holds("nil", Typ(0, "invalid"), NIL)

\* a cell whose type is an interface, or a struct whose field 0 is one
HasIface(t) == t.stars = 0 /\ t.base \in {"any", "T", "TI"}

CellTypes == {Typ(0, b) : b \in {"any", "T", "TI", "int", "M"}}
             \cup {Typ(1, b) : b \in {"any", "T", "M"}}

PtrTypes == {Typ(1, b) : b \in {"any", "T", "TI", "int", "M"}}
            \cup {Typ(2, b) : b \in {"any", "T", "M"}}

\* a pointer of type pt may point at a cell of type ct: at the cell itself,
\* or (a *any) at the interface field of a T or TI
PointsOK(pt, ct) ==
    /\ pt.stars >= 1
    /\ \/ ElemType(pt) = ct
       \/ ElemType(pt) = TAny /\ ct \in {Typ(0, "T"), Typ(0, "TI")}

CellHolds(h, t) ==
    IF t.stars >= 1
    THEN {Holds("ptr", t, NIL)} \cup {Holds("ptr", t, a) : a \in {b \in Addr : PointsOK(t, h[b])}}
    ELSE IF HasIface(t)
    THEN {Nothing, Holds("val", Typ(0, "int"), NIL), Holds("val", Typ(0, "M"), NIL)}
         \cup UNION {{Holds("ptr", pt, a) : a \in {b \in Addr : PointsOK(pt, h[b])}} : pt \in PtrTypes}
    ELSE {Nothing}

\* the heaps: every cell typed, every pointer pointing at a cell of its element type
RECURSIVE HeapsOf(_, _)
HeapsOf(ty, n) ==
    IF n = 0 THEN {<<>>}
    ELSE {Append(h, [typ |-> ty[n], val |-> c]) : h \in HeapsOf(ty, n - 1), c \in CellHolds(ty, ty[n])}

Heaps == UNION {HeapsOf(ty, NCells) : ty \in [Addr -> CellTypes]}

\* the cells some cell refers to
Referenced(h) == {h[a].val.to : a \in Addr} \ {NIL}

\* the arguments: nil, a pointer (nil or not), an int, an M, or a T / TI
\* passed by value (a private copy nothing else refers to)
Roots(h) ==
    {Nothing, Holds("val", Typ(0, "int"), NIL), Holds("val", Typ(0, "M"), NIL)}
    \cup {Holds("ptr", pt, NIL) : pt \in PtrTypes}
    \cup UNION {{Holds("ptr", pt, a) : a \in {b \in Addr : PointsOK(pt, h[b].typ)}} : pt \in PtrTypes}
    \cup {Holds("copy", h[a].typ, a) :
             a \in {b \in Addr : h[b].typ \in {Typ(0, "T"), Typ(0, "TI")} /\ b \notin Referenced(h)}}

\* ---- reflect.Value ----
Val(t, p, fl) == [typ |-> t, ptr |-> p, flag |-> fl]

Invalid == Val(Typ(0, "invalid"), NIL, {})

\* the word of a value boxed in the interface at address a
Box(a) == 0 - a

Kind(v) ==
    IF v.typ.stars > 0 THEN "ptr"
    ELSE CASE v.typ.base = "any" -> "iface"
           [] v.typ.base \in {"T", "TI", "M"} -> "struct"
           [] v.typ.base = "int" -> "int"
           [] OTHER -> "invalid"

\* reflect.ValueOf(a)
ValueOf(a) ==
    CASE a.k = "nil" -> Invalid
      [] a.k = "ptr" -> Val(a.typ, a.to, {})
      [] a.k = "copy" -> Val(a.typ, a.to, {"indir"})
      [] OTHER -> Val(a.typ, Box(NCells + 1), {"indir"})

\* the pointer a pointer-kind value holds
Word(h, v) == IF "indir" \in v.flag THEN h[v.ptr].val.to ELSE v.ptr

\* v.Elem() for a pointer or an interface
Elem(h, v) ==
    IF Kind(v) = "ptr"
    THEN IF Word(h, v) = NIL THEN Invalid
         ELSE Val(ElemType(v.typ), Word(h, v), {"indir", "addr"})
    ELSE LET c == h[v.ptr].val
         IN CASE c.k = "ptr" -> Val(c.typ, c.to, {})
              [] c.k = "val" -> Val(c.typ, Box(v.ptr), {"indir"})
              [] OTHER -> Invalid

\* v.Field(0) of a T or a TI
FieldOf(v) == Val(TAny, v.ptr, v.flag \cap {"indir", "addr"})

\* u == v on reflect.Values
valueEq(u, v) == u.typ = v.typ /\ u.ptr = v.ptr /\ u.flag = v.flag

\* t.Implements(ResourceMarshaler) / (ResourceUnmarshaler)
Implements(t, rcv) == t.base = "M" /\ (t.stars = 1 \/ (t.stars = 0 /\ rcv = "value"))

\* one iteration of derefValue's loop, u the value the loop started from
derefValueStep_Prev(h, u, v) ==
    IF Kind(v) \notin {"ptr", "iface"} THEN [st |-> "ret", v |-> v]
    ELSE IF valueEq(v, Elem(h, v)) THEN [st |-> "err", v |-> Invalid]
    ELSE [st |-> "loop", v |-> Elem(h, v)]

derefValueStep(h, u, v) ==
    IF Kind(v) \notin {"ptr", "iface"} THEN [st |-> "ret", v |-> v]
    ELSE IF valueEq(u, Elem(h, v)) THEN [st |-> "err", v |-> Invalid]
    ELSE [st |-> "loop", v |-> Elem(h, v)]

\* one iteration of derefInput's loop; v.Type() panics on the zero Value
derefInputStep(h, u, v, rcv) ==
    IF v = Invalid THEN [st |-> "panic", v |-> Invalid]
    ELSE IF Implements(v.typ, rcv) \/ Kind(v) \notin {"ptr", "iface"} THEN [st |-> "ret", v |-> v]
    ELSE IF valueEq(u, Elem(h, v)) THEN [st |-> "err", v |-> Invalid]
    ELSE [st |-> "loop", v |-> Elem(h, v)]

\* cap on the iterations of one dereference loop followed: more than the
\* longest chain that ends
MaxSteps == 2 * NCells + 3

\* what the entry point does with the dereferenced root v
rootCheck(h, o, v, rcv) ==
    IF v = Invalid THEN "panic"
    ELSE IF o \in {"MarshalResource", "UnmarshalResource"} /\ Implements(v.typ, rcv)
    THEN IF Kind(v) = "ptr" /\ Word(h, v) = NIL /\ rcv = "value" THEN "panic" ELSE "hook"
    ELSE IF Kind(v) # "struct"
    THEN IF o \in {"MarshalResource", "FormatResource"} THEN "ErrNotStruct" ELSE "ErrNotStructPtr"
    ELSE "parseTags"

\* the position after the index path is followed: marshalAttr dereferences
\* the field, unmarshalAttr hands it to unmarshalJson
afterPath_Deref(o) == "derefField"

afterPath(o) == IF o \in {"MarshalResource", "FormatResource"} THEN "derefField" ELSE "write"

\* unmarshalJson on an interface field: the field is set to a newly allocated
\* value of the type it held (of the decoded JSON's type if it held nothing)
unmarshalJsonIface(h, v) ==
    [h EXCEPT ![v.ptr].val = Holds("fresh", IF Elem(h, v) = Invalid THEN TAny ELSE Elem(h, v).typ, NIL)]

(***************************************************************************)
(* The mapping of field values to and from a Resource.  A record is a      *)
(* sequence of resolved fields, each a tag and a Go value.  The field      *)
(* types are int, string, S = struct{ X int }, []byte, []int, [2]int and   *)
(* pointers to these.  A Go value is its type, whether the pointer is nil  *)
(* (pnil), whether the slice is nil (nil) and its content: seq holds the   *)
(* int, the X of the struct or the elements, str the string.               *)
(***************************************************************************)
GoVal(t, pnil, isnil, seq, str) ==
    [typ |-> t, pnil |-> pnil, nil |-> isnil, seq |-> seq, str |-> str]

\* the zero reflect.Value
NoValue == GoVal(Typ(0, "invalid"), FALSE, FALSE, <<>>, "")

ValueBases == {"int", "string", "struct", "bytes", "slice", "array"}

\* the zero value of a type
ZeroOf(t) ==
    GoVal(t, t.stars > 0, t.stars = 0 /\ t.base \in {"bytes", "slice"},
          CASE t.base \in {"int", "struct"} -> <<0>>
            [] t.base = "array" -> <<0, 0>>
            [] OTHER -> <<>>,
          "")

\* the contents a value of the base type can have
Contents(b) ==
    CASE b \in {"int", "struct"} -> {[nil |-> FALSE, seq |-> <<n>>, str |-> ""] : n \in {0, 1}}
      [] b = "string" -> {[nil |-> FALSE, seq |-> <<>>, str |-> s] : s \in {"", "a"}}
      [] b = "bytes" -> {[nil |-> TRUE, seq |-> <<>>, str |-> ""]}
                        \cup {[nil |-> FALSE, seq |-> q, str |-> ""] : q \in {<<>>, <<1>>}}
      [] b = "slice" -> {[nil |-> TRUE, seq |-> <<>>, str |-> ""]}
                        \cup {[nil |-> FALSE, seq |-> q, str |-> ""] : q \in {<<>>, <<1>>, <<0, 1>>}}
      [] OTHER -> {[nil |-> FALSE, seq |-> q, str |-> ""] : q \in {<<0, 0>>, <<1, 0>>}}

GoValues ==
    UNION {{GoVal(Typ(0, b), FALSE, c.nil, c.seq, c.str) : c \in Contents(b)}
           \cup {GoVal(Typ(1, b), FALSE, c.nil, c.seq, c.str) : c \in Contents(b)}
           \cup {ZeroOf(Typ(1, b))} : b \in ValueBases}

\* v.Kind()
KindOf(v) ==
    IF v = NoValue THEN "invalid"
    ELSE IF v.typ.stars > 0 THEN "ptr"
    ELSE IF v.typ.base \in {"bytes", "ptrs"} THEN "slice" ELSE v.typ.base

\* derefValue of a field value: a nil pointer gives the zero Value
derefField(v) == IF v.typ.stars > 0 THEN (IF v.pnil THEN NoValue ELSE [v EXCEPT !.typ = Typ(0, v.typ.base)]) ELSE v

\* ---- JSON ----
Json(j, seq, str) == [j |-> j, seq |-> seq, str |-> str]

\* a RawMessage of length 0
NoJson == Json("", <<>>, "")

NullJson == Json("null", <<>>, "")

BadJson == Json("bad", <<>>, "")

Digits == <<"0", "1", "2", "3">>

\* strconv: the decimal text of n, and the number a text denotes
Itoa(n) == Digits[n + 1]

IsNumber(s) == \E i \in 1..Len(Digits) : Digits[i] = s

Atoi(s) == (CHOOSE i \in 1..Len(Digits) : Digits[i] = s) - 1

\* encoding/base64 on the byte strings of the model
Base64 == {<<(<<>>), "">>, <<(<<0>>), "AA==">>, <<(<<1>>), "AQ==">>, <<(<<0, 1>>), "AAE=">>}

EncodeToString(q) == (CHOOSE p \in Base64 : p[1] = q)[2]

IsBase64(s) == \E p \in Base64 : p[2] = s

DecodeString(s) == (CHOOSE p \in Base64 : p[2] = s)[1]

\* json.Marshal(v.Interface()) of a valid, dereferenced value
jsonMarshal(v) ==
    CASE v.typ.base = "int" -> Json("num", v.seq, "")
      [] v.typ.base = "string" -> Json("str", <<>>, v.str)
      [] v.typ.base = "struct" -> Json("obj", v.seq, "")
      [] v.typ.base = "bytes" -> IF v.nil THEN NullJson ELSE Json("str", <<>>, EncodeToString(v.seq))
      [] v.typ.base = "slice" -> IF v.nil THEN NullJson ELSE Json("arr", v.seq, "")
      [] OTHER -> Json("arr", v.seq, "")

quotable(k) == k = "int"

marshalJson(v, quote) ==
    IF v = NoValue THEN NullJson
    ELSE IF quote /\ quotable(KindOf(v)) THEN Json("str", <<>>, Itoa(v.seq[1]))
    ELSE jsonMarshal(v)

\* v.IsZero()
IsZero(v) ==
    CASE v.typ.base \in {"int", "struct", "array"} -> \A i \in 1..Len(v.seq) : v.seq[i] = 0
      [] v.typ.base = "string" -> v.str = ""
      [] OTHER -> v.nil

isEmpty_ZeroOnly(v) == v = NoValue \/ IsZero(v)

isEmpty(v) ==
    \/ v = NoValue
    \/ IsZero(v)
    \/ KindOf(v) \in {"array", "slice"} /\ Len(v.seq) = 0

isToOne(fv) == KindOf(fv) # "array" /\ (KindOf(fv) # "slice" \/ fv.typ.base = "bytes")

\* ---- the Resource ----
ResourceIdentifier(t, id) == [Type |-> t, Id |-> id]

newResource ==
    [Type |-> "", Id |-> NoJson, Meta |-> {}, Attributes |-> {},
     ToOneRelationships |-> {}, ToManyRelationships |-> {}]

\* maps are sets of entries
Entry(k, v) == [k |-> k, v |-> v]

Has(m, k) == \E e \in m : e.k = k

Get(m, k) == (CHOOSE e \in m : e.k = k).v

Put(m, k, v) == {e \in m : e.k # k} \cup {Entry(k, v)}

\* marshalId with the document type set only when the id is written
marshalId_TypeLast(v, r, f) ==
    IF f.tag.omitempty /\ isEmpty(derefField(v)) THEN r
    ELSE [r EXCEPT !.Type = f.tag.rscType, !.Id = marshalJson(derefField(v), f.tag.quote)]

marshalId(v, r, f) ==
    LET r1 == [r EXCEPT !.Type = f.tag.rscType]
    IN IF f.tag.omitempty /\ isEmpty(derefField(v)) THEN r1
       ELSE [r1 EXCEPT !.Id = marshalJson(derefField(v), f.tag.quote)]

marshalAttr(v, r, f) ==
    IF f.tag.omitempty /\ isEmpty(derefField(v)) THEN r
    ELSE [r EXCEPT !.Attributes = Put(@, f.tag.name, marshalJson(derefField(v), f.tag.quote))]

marshalMeta(v, r, f) ==
    IF f.tag.omitempty /\ isEmpty(derefField(v)) THEN r
    ELSE [r EXCEPT !.Meta = Put(@, f.tag.name, marshalJson(derefField(v), f.tag.quote))]

marshalToOneRel(v, r, f) ==
    [r EXCEPT !.ToOneRelationships =
        Put(@, f.tag.name, ResourceIdentifier(f.tag.rscType, marshalJson(v, f.tag.quote)))]

\* an element of a []*int (base "ptrs") that is a nil pointer; any other
\* element is the int held or pointed to
NilElem == -1

\* v.Index(i): the elements of an array or slice are ints, those of a
\* []*int pointers to ints
Index(v, i) ==
    IF v.typ.base = "ptrs"
    THEN IF v.seq[i] = NilElem THEN ZeroOf(Typ(1, "int"))
         ELSE GoVal(Typ(1, "int"), FALSE, FALSE, <<v.seq[i]>>, "")
    ELSE GoVal(Typ(0, "int"), FALSE, FALSE, <<v.seq[i]>>, "")

\* marshalToManyRel with the elements handed to marshalJson as they are: a
\* pointer is not of a quotable kind
marshalToManyRel_NoDeref(v, r, f) ==
    [r EXCEPT !.ToManyRelationships =
        Put(@, f.tag.name,
            [i \in 1..Len(v.seq) |->
                ResourceIdentifier(f.tag.rscType,
                    IF Index(v, i).typ.stars = 0 THEN marshalJson(Index(v, i), f.tag.quote)
                    ELSE IF Index(v, i).pnil THEN NullJson
                    ELSE jsonMarshal(derefField(Index(v, i))))])]

marshalToManyRel(v, r, f) ==
    [r EXCEPT !.ToManyRelationships =
        Put(@, f.tag.name,
            [i \in 1..Len(v.seq) |->
                ResourceIdentifier(f.tag.rscType, marshalJson(derefField(Index(v, i)), f.tag.quote))])]

marshalRel(v, r, f) ==
    IF f.tag.omitempty /\ isEmpty(derefField(v)) THEN r
    ELSE IF isToOne(derefField(v)) THEN marshalToOneRel(derefField(v), r, f)
    ELSE marshalToManyRel(derefField(v), r, f)

marshalField(v, r, f) ==
    CASE f.tag.typ = "id" -> marshalId(v, r, f)
      [] f.tag.typ = "attr" -> marshalAttr(v, r, f)
      [] f.tag.typ = "rel" -> marshalRel(v, r, f)
      [] OTHER -> marshalMeta(v, r, f)

\* the loop of FormatResource / MarshalResource over the fields
RECURSIVE marshalFields(_, _, _)
marshalFields(rcd, r, i) ==
    IF i > Len(rcd) THEN r
    ELSE marshalFields(rcd, marshalField(rcd[i].val, r, rcd[i]), i + 1)

\* ---- the document on the wire ----
\* Resource.MarshalJSON: both relationship maps go under "relationships",
\* the to-many ones last; a linkage's data is an object or an array
MarshalJSON(r) ==
    [Type |-> r.Type, Id |-> r.Id, Meta |-> r.Meta, Attributes |-> r.Attributes,
     Relationships |->
        {Entry(e.k, [first |-> "{", one |-> e.v, many |-> <<>>]) :
            e \in {x \in r.ToOneRelationships : ~Has(r.ToManyRelationships, x.k)}}
        \cup {Entry(e.k, [first |-> "[", one |-> ResourceIdentifier("", NoJson), many |-> e.v]) :
            e \in r.ToManyRelationships}]

\* Resource.UnmarshalJSON: a linkage is to-many or to-one by the first
\* byte of its data
UnmarshalJSON(w) ==
    [Type |-> w.Type, Id |-> w.Id, Meta |-> w.Meta, Attributes |-> w.Attributes,
     ToOneRelationships |-> {Entry(e.k, e.v.one) : e \in {x \in w.Relationships : x.v.first = "{"}},
     ToManyRelationships |-> {Entry(e.k, e.v.many) : e \in {x \in w.Relationships : x.v.first = "["}}]

\* ---- unmarshaling ----
Outcome(st, v) == [st |-> st, v |-> v]

\* data[1 : len(data)-1]
stripQuotes(data) ==
    CASE data.j = "str" ->
            Outcome("nil", IF IsNumber(data.str) THEN Json("num", <<Atoi(data.str)>>, "") ELSE BadJson)
      [] data.j = "num" ->
            IF data.seq[1] < 10 THEN Outcome("panic", BadJson)
            ELSE IF data.seq[1] < 100 THEN Outcome("nil", BadJson)
            ELSE Outcome("nil", Json("num", <<(data.seq[1] \div 10) % 10>>, ""))
      [] data.j = "arr" /\ Len(data.seq) = 1 -> Outcome("nil", Json("num", data.seq, ""))
      [] OTHER -> Outcome("nil", BadJson)

\* the switch of unmarshalJson on the kind of the dereferenced value:
\* json.Unmarshal into a variable of the kind, then Set
decodeKind(d, v) ==
    CASE d.j = "bad" -> Outcome("UnmarshalErr", v)
      [] v.typ.base = "int" ->
            IF d.j = "num" THEN Outcome("nil", [v EXCEPT !.seq = d.seq])
            ELSE IF d.j = "null" THEN Outcome("nil", [v EXCEPT !.seq = <<0>>])
            ELSE Outcome("UnmarshalErr", v)
      [] v.typ.base = "string" ->
            IF d.j = "str" THEN Outcome("nil", [v EXCEPT !.str = d.str])
            ELSE IF d.j = "null" THEN Outcome("nil", [v EXCEPT !.str = ""])
            ELSE Outcome("UnmarshalErr", v)
      [] d.j = "null" -> Outcome("panic", v)
      [] v.typ.base = "struct" ->
            IF d.j = "obj" THEN Outcome("nil", [v EXCEPT !.seq = d.seq])
            ELSE Outcome("UnmarshalErr", v)
      [] v.typ.base = "array" ->
            IF d.j = "arr"
            THEN Outcome("nil", [v EXCEPT !.seq = [i \in 1..2 |-> IF i <= Len(d.seq) THEN d.seq[i] ELSE 0]])
            ELSE Outcome("UnmarshalErr", v)
      [] v.typ.base = "slice" ->
            IF d.j = "arr" THEN Outcome("nil", [v EXCEPT !.seq = d.seq, !.nil = FALSE])
            ELSE Outcome("UnmarshalErr", v)
      [] OTHER ->
            IF d.j = "str" /\ IsBase64(d.str)
            THEN Outcome("nil", [v EXCEPT !.seq = DecodeString(d.str), !.nil = FALSE])
            ELSE IF d.j = "arr" THEN Outcome("nil", [v EXCEPT !.seq = d.seq, !.nil = FALSE])
            ELSE Outcome("UnmarshalErr", v)

unmarshalJson(data, v, quote) ==
    IF data = NoJson THEN Outcome("nil", v)
    ELSE LET s == IF quote /\ quotable(KindOf(v)) THEN stripQuotes(data) ELSE Outcome("nil", data)
         IN IF s.st = "panic" THEN Outcome("panic", v) ELSE decodeKind(s.v, v)

\* initValue: a nil pointer is set to a new zero value
initValue(v) == IF v.typ.stars > 0 /\ v.pnil THEN [v EXCEPT !.pnil = FALSE] ELSE v

unmarshalId(v, r, f) ==
    IF r.Id = NoJson THEN Outcome("nil", v)
    ELSE unmarshalJson(r.Id, initValue(v), f.tag.quote)

unmarshalAttr(v, r, f) ==
    IF ~Has(r.Attributes, f.tag.name) \/ Get(r.Attributes, f.tag.name) = NoJson THEN Outcome("nil", v)
    ELSE unmarshalJson(Get(r.Attributes, f.tag.name), initValue(v), f.tag.quote)

unmarshalMeta(v, r, f) ==
    IF ~Has(r.Meta, f.tag.name) \/ Get(r.Meta, f.tag.name) = NoJson THEN Outcome("nil", v)
    ELSE unmarshalJson(Get(r.Meta, f.tag.name), initValue(v), f.tag.quote)

unmarshalToOneRel(v, r, f) ==
    IF ~Has(r.ToOneRelationships, f.tag.name) THEN Outcome("nil", v)
    ELSE IF Get(r.ToOneRelationships, f.tag.name).Id = NoJson THEN Outcome("nil", v)
    ELSE unmarshalJson(Get(r.ToOneRelationships, f.tag.name).Id, initValue(v), f.tag.quote)

\* the loop of unmarshalToManyRel over the linkage's data: v has been
\* resized, element i is decoded in place
\* element i of v set to e
SetIndex(v, i, e) == [v EXCEPT !.seq[i] = IF e.typ.stars > 0 /\ e.pnil THEN NilElem ELSE e.seq[1]]

RECURSIVE unmarshalElems(_, _, _, _)
unmarshalElems(v, data, i, quote) ==
    IF i > Len(data) THEN Outcome("nil", v)
    ELSE LET e == unmarshalJson(data[i].Id, initValue(Index(v, i)), quote)
         IN IF e.st # "nil" THEN Outcome(e.st, SetIndex(v, i, e.v))
            ELSE unmarshalElems(SetIndex(v, i, e.v), data, i + 1, quote)

\* v.Cap(): a slice carries its capacity in cap; one without the field was
\* never grown and its capacity is its length
Cap(v) == IF "cap" \in DOMAIN v THEN v.cap ELSE Len(v.seq)

WithCap(v, c) == IF "cap" \in DOMAIN v THEN [v EXCEPT !.cap = c] ELSE v

\* the zero value of an element
ZeroElem(v) == IF v.typ.base = "ptrs" THEN NilElem ELSE 0

\* the capacity after v.Grow(n), n >= 0: room for n more elements.  (The
\* allocator may round the capacity up further when it grows the slice.)
Grow(v, n) == IF Len(v.seq) + n > Cap(v) THEN Len(v.seq) + n ELSE Cap(v)

\* v.SetLen(n), n within the capacity: elements beyond the old length are
\* zero
SetLen(v, n) ==
    [v EXCEPT !.nil = FALSE,
              !.seq = [i \in 1..n |-> IF i <= Len(v.seq) THEN v.seq[i] ELSE ZeroElem(v)]]

\* unmarshalToManyRel with the slice grown by the number of elements missing
\* from its length, and not at all when it is long enough
unmarshalToManyRel_GrowLen(v, r, f) ==
    IF ~Has(r.ToManyRelationships, f.tag.name) THEN Outcome("nil", v)
    ELSE LET data == Get(r.ToManyRelationships, f.tag.name)
             n == Len(data)
             c == IF n > Len(v.seq) THEN Grow(v, n - Len(v.seq)) ELSE Cap(v)
         IN IF n = 0 THEN Outcome("nil", v)
            ELSE IF KindOf(initValue(v)) # "slice" THEN Outcome("panic", initValue(v))
            ELSE unmarshalElems(WithCap(SetLen(v, n), c), data, 1, f.tag.quote)

\* Grow panics on an array and on a negative n, SetLen on a length beyond
\* the capacity
unmarshalToManyRel(v, r, f) ==
    IF ~Has(r.ToManyRelationships, f.tag.name) THEN Outcome("nil", v)
    ELSE LET data == Get(r.ToManyRelationships, f.tag.name)
             n == Len(data)
             c == Grow(v, n - Cap(v))
         IN IF n = 0 THEN Outcome("nil", v)
            ELSE IF KindOf(initValue(v)) # "slice" \/ n - Cap(v) < 0 THEN Outcome("panic", initValue(v))
            ELSE IF n > c THEN Outcome("panic", WithCap(v, c))
            ELSE unmarshalElems(WithCap(SetLen(v, n), c), data, 1, f.tag.quote)

unmarshalRel(v, r, f) ==
    IF isToOne(v) THEN unmarshalToOneRel(v, r, f) ELSE unmarshalToManyRel(v, r, f)

unmarshalField(v, r, f) ==
    CASE f.tag.typ = "id" -> unmarshalId(v, r, f)
      [] f.tag.typ = "attr" -> unmarshalAttr(v, r, f)
      [] f.tag.typ = "rel" -> unmarshalRel(v, r, f)
      [] OTHER -> unmarshalMeta(v, r, f)

\* the loop of DeformatResource / UnmarshalResource over the fields; it
\* returns at the first error
RECURSIVE unmarshalFields(_, _, _, _)
unmarshalFields(rcd, tgt, r, i) ==
    IF i > Len(rcd) THEN Outcome("nil", tgt)
    ELSE LET o == unmarshalField(tgt[i], r, rcd[i])
         IN IF o.st # "nil" THEN Outcome(o.st, [tgt EXCEPT ![i] = o.v])
            ELSE unmarshalFields(rcd, [tgt EXCEPT ![i] = o.v], r, i + 1)

\* ---- the records ----
FieldKinds == {"id", "attr", "rel", "meta"}

FieldNames == <<"a", "b", "c">>

FieldsAt(i) ==
    {[tag |-> Tag(k, IF k = "id" THEN "" ELSE FieldNames[i], IF k = "id" THEN 0 ELSE 3,
                  IF k \in {"id", "rel"} THEN "t" ELSE "", q, o),
      val |-> v] : k \in FieldKinds, q \in BOOLEAN, o \in BOOLEAN, v \in GoValues}

RECURSIVE RecordsOf(_)
RecordsOf(n) ==
    IF n = 0 THEN {<<>>}
    ELSE {Append(rcd, f) : rcd \in RecordsOf(n - 1), f \in FieldsAt(n)}

\* the resolved fields of a record: at most one id
Records ==
    {rcd \in UNION {RecordsOf(n) : n \in 1..MaxFields} :
        Cardinality({i \in 1..Len(rcd) : rcd[i].tag.typ = "id"}) <= 1}

\* a zero-valued record of the same type
ZeroRecord(rcd) == [i \in 1..Len(rcd) |-> ZeroOf(rcd[i].val.typ)]

NoWire == MarshalJSON(newResource)

MapIdle ==
    /\ rec = <<>> /\ mop = "" /\ mpc = "idle" /\ mdoc = newResource /\ mwire = NoWire
    /\ mout = <<>> /\ mres = ""

(***************************************************************************)
(* Field access.  A resolved field lies at the end of an index path of     *)
(* length depth: depth - 1 embedded pointers to structs, one below the     *)
(* other, and the field itself.  Of the embedded pointers the first live   *)
(* are set; the next one is nil and the ones below it do not exist.        *)
(***************************************************************************)
MaxDepth == 3           \* the longest index path of a field

AccField(tag, val, depth, live) == [tag |-> tag, val |-> val, depth |-> depth, live |-> live]

\* an interface field that holds a pointer chain leading back to itself
SelfRef == GoVal(TAny, FALSE, FALSE, <<>>, "self")

\* a float64 field that holds NaN, which json.Marshal refuses
NaN == GoVal(Typ(0, "float"), FALSE, FALSE, <<>>, "NaN")

\* fieldByIndex from iteration k on: derefValue of a nil embedded pointer
\* gives the zero Value, and Field panics on it
RECURSIVE fieldByIndexFrom(_, _)
fieldByIndexFrom(fld, k) ==
    IF k > 1 /\ fld.live < k - 1 THEN Outcome("panic", NoValue)
    ELSE IF k = fld.depth THEN Outcome("nil", fld.val)
    ELSE fieldByIndexFrom(fld, k + 1)

fieldByIndex(fld) == fieldByIndexFrom(fld, 1)

\* initFieldByIndex from iteration k on: initValue sets the embedded pointer
\* the iteration selects, and at the end of the path the field itself
RECURSIVE initFieldByIndexFrom(_, _)
initFieldByIndexFrom(fld, k) ==
    IF k > fld.depth THEN fld
    ELSE IF k = fld.depth THEN initFieldByIndexFrom([fld EXCEPT !.val = initValue(@)], k + 1)
    ELSE initFieldByIndexFrom([fld EXCEPT !.live = IF @ < k THEN k ELSE @], k + 1)

initFieldByIndex(fld) == initFieldByIndexFrom(fld, 1)

Result(st, r) == [st |-> st, r |-> r]

\* marshalId / marshalAttr / marshalRel / marshalMeta from the root of the
\* record: fieldByIndex, derefValue, then the value is marshaled
marshalFieldAt(fld, r) ==
    LET r1 == IF fld.tag.typ = "id" THEN [r EXCEPT !.Type = fld.tag.rscType] ELSE r
    IN IF fieldByIndex(fld).st = "panic" THEN Result("panic", r1)
       ELSE IF fld.val = SelfRef THEN Result("ErrSelfRefPtr", r1)
       ELSE IF fld.val = NaN THEN Result("MarshalErr", r1)
       ELSE Result("nil", marshalField(fld.val, r, fld))

\* the loop of FormatResource / MarshalResource over the fields; i counts
\* the fields taken up
RECURSIVE marshalFieldsAt(_, _, _)
marshalFieldsAt(rcd, r, i) ==
    IF i > Len(rcd) THEN [st |-> "nil", r |-> r, i |-> i - 1]
    ELSE LET o == marshalFieldAt(rcd[i], r)
         IN IF o.st # "nil" THEN [st |-> o.st, r |-> o.r, i |-> i]
            ELSE marshalFieldsAt(rcd, o.r, i + 1)

\* FormatResource that hands back the Resource it was filling when a field failed
marshalAll_Partial(rcd) ==
    LET o == marshalFieldsAt(rcd, newResource, 1)
    IN [st |-> o.st, doc |-> <<o.r>>, i |-> o.i]

\* FormatResource / MarshalResource: nil is returned with an error
marshalAll(rcd) ==
    LET o == marshalFieldsAt(rcd, newResource, 1)
    IN [st |-> o.st, doc |-> IF o.st = "nil" THEN <<o.r>> ELSE <<>>, i |-> o.i]

\* the early returns of unmarshalId / Attr / Meta / ToOneRel / ToManyRel are
\* not taken: the Resource has data for the field
HasData(fld, r) ==
    CASE fld.tag.typ = "id" -> r.Id # NoJson
      [] fld.tag.typ = "attr" -> Has(r.Attributes, fld.tag.name) /\ Get(r.Attributes, fld.tag.name) # NoJson
      [] fld.tag.typ = "meta" -> Has(r.Meta, fld.tag.name) /\ Get(r.Meta, fld.tag.name) # NoJson
      [] OTHER ->
            IF isToOne(fld.val)
            THEN Has(r.ToOneRelationships, fld.tag.name)
                 /\ Get(r.ToOneRelationships, fld.tag.name).Id # NoJson
            ELSE Has(r.ToManyRelationships, fld.tag.name)
                 /\ Len(Get(r.ToManyRelationships, fld.tag.name)) > 0

\* unmarshalId / Attr / Rel / Meta from the root of the record: unmarshalRel
\* reads the field with fieldByIndex first; the others, and the two it
\* calls, return early without data and else go through initFieldByIndex
unmarshalFieldAt(fld, r) ==
    IF fld.tag.typ = "rel" /\ fieldByIndex(fld).st = "panic" THEN Outcome("panic", fld)
    ELSE IF ~HasData(fld, r) THEN Outcome("nil", fld)
    ELSE LET o == unmarshalField(fld.val, r, fld)
         IN Outcome(o.st, [initFieldByIndex(fld) EXCEPT !.val = o.v])

\* the loop of DeformatResource / UnmarshalResource over the fields
RECURSIVE unmarshalFieldsAt(_, _, _)
unmarshalFieldsAt(rcd, r, i) ==
    IF i > Len(rcd) THEN [st |-> "nil", rcd |-> rcd, i |-> i - 1]
    ELSE LET o == unmarshalFieldAt(rcd[i], r)
         IN IF o.st # "nil" THEN [st |-> o.st, rcd |-> [rcd EXCEPT ![i] = o.v], i |-> i]
            ELSE unmarshalFieldsAt([rcd EXCEPT ![i] = o.v], r, i + 1)

\* ---- the records and the documents ----
Int1 == GoVal(Typ(0, "int"), FALSE, FALSE, <<1>>, "")

Paths == {p \in [depth : 1..MaxDepth, live : 0..MaxDepth] : p.live < p.depth}

\* the first field: of any kind, an int, a nil *int, for a rel also a nil
\* []int, or a value that does not marshal
FirstFields ==
    {AccField(Tag(k, IF k = "id" THEN "" ELSE "a", IF k = "id" THEN 0 ELSE 3,
                  IF k \in {"id", "rel"} THEN "t" ELSE "", FALSE, o), v, p.depth, p.live) :
        k \in FieldKinds, o \in BOOLEAN, p \in Paths,
        v \in {Int1, ZeroOf(Typ(1, "int")), ZeroOf(Typ(0, "slice")), SelfRef, NaN}}

\* the second field: an attribute
SecondFields ==
    {AccField(Tag("attr", "b", 3, "", FALSE, FALSE), v, p.depth, p.live) :
        p \in {q \in Paths : q.depth <= 2}, v \in {Int1, NaN}}

AccRecords ==
    {rcd \in {<<f>> : f \in FirstFields} \cup {<<f, g>> : f \in FirstFields, g \in SecondFields} :
        rcd[1].val.typ.base = "slice" => rcd[1].tag.typ = "rel"}

Faulty(rcd) == \E i \in 1..Len(rcd) : rcd[i].val \in {SelfRef, NaN}

\* the data of a field in a document: the number 1, or a string
GoodJson == Json("num", <<1>>, "")

WrongJson == Json("str", <<>>, "a")

\* the Resource r with data j for the field
WithData(r, fld, j) ==
    CASE fld.tag.typ = "id" -> [r EXCEPT !.Type = fld.tag.rscType, !.Id = j]
      [] fld.tag.typ = "attr" -> [r EXCEPT !.Attributes = Put(@, fld.tag.name, j)]
      [] fld.tag.typ = "meta" -> [r EXCEPT !.Meta = Put(@, fld.tag.name, j)]
      [] OTHER ->
            IF isToOne(fld.val)
            THEN [r EXCEPT !.ToOneRelationships = Put(@, fld.tag.name, ResourceIdentifier(fld.tag.rscType, j))]
            ELSE [r EXCEPT !.ToManyRelationships =
                                Put(@, fld.tag.name, <<ResourceIdentifier(fld.tag.rscType, j)>>)]

\* the documents for a record: each field's data is absent, good or of the
\* wrong JSON type
RECURSIVE DocsFor(_, _)
DocsFor(rcd, n) ==
    IF n = 0 THEN {newResource}
    ELSE LET ds == DocsFor(rcd, n - 1)
         IN ds \cup {WithData(r, rcd[n], j) : r \in ds, j \in {GoodJson, WrongJson}}

AccIdle ==
    /\ arec = <<>> /\ aop = "" /\ ain = newResource /\ apc = "idle" /\ aout = <<>>
    /\ adoc = <<>> /\ ares = "" /\ ai = 0

----------------------------------------------------------------------------
(* The specifications.  Each runs one part of the model; the variables of  *)
(* the other parts stay at their idle values.                              *)

RefIdle ==
    /\ heap = <<>> /\ heap0 = <<>> /\ root = Nothing /\ rop = "" /\ recv = "pointer"
    /\ rpc = "idle" /\ rloop = "" /\ ru = Invalid /\ rv = Invalid /\ rroot = Invalid
    /\ rcur = Invalid /\ rlvl = 0 /\ rfield = 0 /\ rpos = 0 /\ rres = "" /\ rsteps = 0

(***************************************************************************)
(* Field resolution: MarshalResource / UnmarshalResource on a record of a  *)
(* type drawn from the type tables, from parseTags on.                     *)
(***************************************************************************)
Init ==
    /\ \E bt \in RootBodies, ba \in SubBodies("A") \cup {<<>>},
          bb \in SubBodies("B") \cup {<<>>}, bc \in SubBodies("C") \cup {<<>>} :
          /\ tt = [t \in TypeNames |-> CASE t = "T" -> bt [] t = "A" -> ba
                                          [] t = "B" -> bb [] OTHER -> bc]
          /\ WellFormed(tt)
    /\ nilAt \in SUBSET PtrSites(tt)
    /\ op \in {"marshal", "unmarshal"}
    /\ pc = "parseTags"
    /\ next = <<structElem("T", TRUE, <<>>)>>
    /\ fields = <<>>
    /\ types = {}
    /\ level = 0
    /\ sorted = <<>>
    /\ resolved = <<>>
    /\ err = ""
    /\ doc = EmptyDoc
    /\ written = {}
    /\ RefIdle
    /\ MapIdle
    /\ AccIdle

\* one level of the breadth-first search
BfsLevel ==
    /\ pc = "parseTags"
    /\ next # <<>>
    /\ level < MaxLevels
    /\ LET st == bfsLevel([next |-> next, fields |-> fields, types |-> types, err |-> ""])
       IN /\ next' = st.next
          /\ types' = st.types
          /\ err' = st.err
          /\ fields' = IF st.err # "" THEN <<>> ELSE st.fields
          /\ pc' = IF st.err # "" THEN "done" ELSE "parseTags"
    /\ level' = level + 1
    /\ UNCHANGED <<tt, nilAt, op, sorted, resolved, doc, written, refVars, mapVars, accVars>>

\* the queue is empty: sort, filter and return
SortAndFilter ==
    /\ pc = "parseTags"
    /\ next = <<>>
    /\ \E s \in SortFunc(fields) :
          /\ sorted' = s
          /\ resolved' = filterFields(s, 1)
    /\ pc' = "map"
    /\ UNCHANGED <<tt, nilAt, op, next, fields, types, level, err, doc, written, refVars, mapVars, accVars>>

\* MarshalResource: the loop over the resolved fields
MarshalFields ==
    /\ pc = "map"
    /\ op = "marshal"
    /\ doc' = marshalKeys(EmptyDoc, resolved, 1)
    /\ pc' = "done"
    /\ UNCHANGED <<tt, nilAt, op, next, fields, types, level, sorted, resolved, err, written, refVars, mapVars, accVars>>

\* UnmarshalResource of a document that has every key: the loop over the resolved fields
UnmarshalFields ==
    /\ pc = "map"
    /\ op = "unmarshal"
    /\ written' = unmarshalKeys(FullDoc, resolved)
    /\ pc' = "done"
    /\ UNCHANGED <<tt, nilAt, op, next, fields, types, level, sorted, resolved, err, doc, refVars, mapVars, accVars>>

Next == BfsLevel \/ SortAndFilter \/ MarshalFields \/ UnmarshalFields

Spec == Init /\ [][Next]_vars

(***************************************************************************)
(* Tag parsing: the same calls on a record type with one field, whose      *)
(* declaration is drawn from every combination of tag, json tag, kind and  *)
(* visibility.                                                             *)
(***************************************************************************)
KindTokens == {"", "id", "attr", "rel", "meta", "-", "xxx"}

OptTokens == {"", "n", "t", "omitempty"}

\* the values of the jsonapi tag
Tags == {<<>>} \cup {<<k>> : k \in KindTokens} \cup {<<k, a>> : k \in KindTokens, a \in OptTokens}
        \cup {<<k, a, b>> : k \in KindTokens, a \in OptTokens, b \in OptTokens}

JsonTags == {<<>>, <<"j">>, <<"", "omitempty">>}

LeafKinds == {"int", "func", "chan", "complex"}

TagDecls ==
    {Decl("F", e, a, TRUE, t, j, k, p, "") :
        e \in BOOLEAN, a \in BOOLEAN, t \in Tags, j \in JsonTags, k \in LeafKinds, p \in BOOLEAN}
    \cup {Decl("F", e, a, FALSE, <<>>, j, k, p, "") :
        e \in BOOLEAN, a \in BOOLEAN, j \in JsonTags, k \in LeafKinds, p \in BOOLEAN}

InitTag ==
    /\ \E d \in TagDecls : tt = [t \in TypeNames |-> IF t = "T" THEN <<d>> ELSE <<>>]
    /\ nilAt \in SUBSET PtrSites(tt)
    /\ op \in {"marshal", "unmarshal"}
    /\ pc = "parseTags"
    /\ next = <<structElem("T", TRUE, <<>>)>>
    /\ fields = <<>>
    /\ types = {}
    /\ level = 0
    /\ sorted = <<>>
    /\ resolved = <<>>
    /\ err = ""
    /\ doc = EmptyDoc
    /\ written = {}
    /\ RefIdle
    /\ MapIdle
    /\ AccIdle

SpecTag == InitTag /\ [][Next]_vars

(***************************************************************************)
(* The entry points on a heap of references.                               *)
(***************************************************************************)
ResolveIdle ==
    /\ tt = <<>> /\ nilAt = {} /\ op = "" /\ pc = "idle" /\ next = <<>> /\ fields = <<>>
    /\ types = {} /\ level = 0 /\ sorted = <<>> /\ resolved = <<>> /\ err = ""
    /\ doc = EmptyDoc /\ written = {}

EntryPoints == {"MarshalResource", "FormatResource", "UnmarshalResource", "DeformatResource"}

UsesM(h, a) == a.typ.base = "M" \/ \E b \in Addr : h[b].typ.base = "M" \/ h[b].val.typ.base = "M"

InitRef ==
    /\ heap \in Heaps
    /\ heap0 = heap
    /\ root \in Roots(heap)
    /\ rop \in EntryPoints
    /\ recv \in {"value", "pointer"}
    /\ recv = "value" => UsesM(heap, root)
    /\ rpc = "start" /\ rloop = "" /\ ru = Invalid /\ rv = Invalid /\ rroot = Invalid
    /\ rcur = Invalid /\ rlvl = 0 /\ rfield = 0 /\ rpos = 0 /\ rres = "" /\ rsteps = 0
    /\ ResolveIdle
    /\ MapIdle
    /\ AccIdle

\* the call returns res
Return(res) ==
    /\ rpc' = "done"
    /\ rres' = res

\* the entry point up to its dereference loop
Call ==
    /\ rpc = "start"
    /\ IF rop \in {"UnmarshalResource", "DeformatResource"} /\ Kind(ValueOf(root)) # "ptr"
       THEN /\ Return("ErrNotStructPtr")
            /\ UNCHANGED <<rloop, ru, rv>>
       ELSE /\ rpc' = "derefRoot"
            /\ rloop' = "root"
            /\ ru' = ValueOf(root)
            /\ rv' = ValueOf(root)
            /\ UNCHANGED rres
    /\ UNCHANGED <<heap, heap0, root, rop, recv, rroot, rcur, rlvl, rfield, rpos, rsteps, resolveVars, mapVars, accVars>>

\* one iteration of derefInput (MarshalResource, UnmarshalResource) or
\* derefValue (FormatResource, DeformatResource) on the argument, and on
\* the loop's return the checks of the entry point
DerefRoot ==
    /\ rpc = "derefRoot"
    /\ rsteps < MaxSteps
    /\ LET s == IF rop \in {"MarshalResource", "UnmarshalResource"}
                THEN derefInputStep(heap, ru, rv, recv)
                ELSE derefValueStep(heap, ru, rv)
           c == rootCheck(heap, rop, s.v, recv)
       IN CASE s.st = "loop" ->
                 /\ rv' = s.v
                 /\ rsteps' = rsteps + 1
                 /\ UNCHANGED <<rpc, rres, rroot, rcur>>
            [] s.st = "err" ->
                 /\ Return("ErrSelfRefPtr")
                 /\ UNCHANGED <<rv, rsteps, rroot, rcur>>
            [] s.st = "panic" ->
                 /\ Return("panic")
                 /\ UNCHANGED <<rv, rsteps, rroot, rcur>>
            [] OTHER ->
                 IF c = "parseTags"
                 THEN /\ rpc' = "parseTags"
                      /\ rroot' = s.v
                      /\ rcur' = s.v
                      /\ UNCHANGED <<rv, rsteps, rres>>
                 ELSE /\ Return(c)
                      /\ UNCHANGED <<rv, rsteps, rroot, rcur>>
    /\ UNCHANGED <<heap, heap0, root, rop, recv, rloop, ru, rlvl, rfield, rpos, resolveVars, mapVars, accVars>>

\* parseTags, one level: the struct of the level has one field.  T's is
\* tagged and resolves; TI's is an embedded interface, dereferenced to look
\* for a struct; M has none.
ParseLevel ==
    /\ rpc = "parseTags"
    /\ rlvl < MaxLevels
    /\ CASE rcur.typ.base = "T" ->
              /\ rfield' = rlvl + 1
              /\ rpc' = "map"
              /\ UNCHANGED <<rloop, ru, rv, rsteps>>
         [] rcur.typ.base = "TI" ->
              /\ rpc' = "derefAnon"
              /\ rloop' = "anon"
              /\ ru' = FieldOf(rcur)
              /\ rv' = FieldOf(rcur)
              /\ rsteps' = 0
              /\ UNCHANGED rfield
         [] OTHER ->
              /\ rfield' = 0
              /\ rpc' = "map"
              /\ UNCHANGED <<rloop, ru, rv, rsteps>>
    /\ UNCHANGED <<heap, heap0, root, rop, recv, rroot, rcur, rlvl, rpos, rres, resolveVars, mapVars, accVars>>

\* parseTags: one iteration of derefValue on the embedded field; a struct
\* found is the next level, anything else ends the search
DerefAnon ==
    /\ rpc = "derefAnon"
    /\ rsteps < MaxSteps
    /\ LET s == derefValueStep(heap, ru, rv)
       IN CASE s.st = "loop" ->
                 /\ rv' = s.v
                 /\ rsteps' = rsteps + 1
                 /\ UNCHANGED <<rpc, rres, rcur, rlvl, rfield>>
            [] s.st = "err" ->
                 /\ Return("ErrSelfRefPtr")
                 /\ UNCHANGED <<rv, rsteps, rcur, rlvl, rfield>>
            [] OTHER ->
                 IF Kind(s.v) = "struct"
                 THEN /\ rpc' = "parseTags"
                      /\ rcur' = s.v
                      /\ rlvl' = rlvl + 1
                      /\ UNCHANGED <<rv, rsteps, rres, rfield>>
                 ELSE /\ rpc' = "map"
                      /\ rfield' = 0
                      /\ UNCHANGED <<rv, rsteps, rres, rcur, rlvl>>
    /\ UNCHANGED <<heap, heap0, root, rop, recv, rloop, ru, rroot, rpos, resolveVars, mapVars, accVars>>

\* the loop over the resolved fields: none, or the one field
MapField ==
    /\ rpc = "map"
    /\ IF rfield = 0
       THEN /\ Return("nil")
            /\ UNCHANGED <<rloop, ru, rv, rpos, rsteps>>
       ELSE /\ rpc' = "derefPath"
            /\ rloop' = "path"
            /\ ru' = rroot
            /\ rv' = rroot
            /\ rpos' = 0
            /\ rsteps' = 0
            /\ UNCHANGED rres
    /\ UNCHANGED <<heap, heap0, root, rop, recv, rroot, rcur, rlvl, rfield, resolveVars, mapVars, accVars>>

\* fieldByIndex / initFieldByIndex: one iteration of derefValue on the
\* current value, and on its return the step to field 0 (initValue leaves
\* an interface field alone)
DerefPath ==
    /\ rpc = "derefPath"
    /\ rsteps < MaxSteps
    /\ LET s == derefValueStep(heap, ru, rv)
           f == FieldOf(s.v)
       IN CASE s.st = "loop" ->
                 /\ rv' = s.v
                 /\ rsteps' = rsteps + 1
                 /\ UNCHANGED <<rpc, rres, rloop, ru, rpos>>
            [] s.st = "err" ->
                 /\ Return("ErrSelfRefPtr")
                 /\ UNCHANGED <<rv, rsteps, rloop, ru, rpos>>
            [] OTHER ->
                 /\ rpos' = rpos + 1
                 /\ ru' = f
                 /\ rv' = f
                 /\ rsteps' = 0
                 /\ rpc' = IF rpos + 1 = rfield THEN afterPath(rop) ELSE "derefPath"
                 /\ rloop' = IF rpos + 1 = rfield /\ afterPath(rop) = "derefField"
                             THEN "field" ELSE "path"
                 /\ UNCHANGED rres
    /\ UNCHANGED <<heap, heap0, root, rop, recv, rroot, rcur, rlvl, rfield, resolveVars, mapVars, accVars>>

\* marshalAttr: one iteration of derefValue on the field; on its return the
\* value goes to marshalJson
DerefField ==
    /\ rpc = "derefField"
    /\ rsteps < MaxSteps
    /\ LET s == derefValueStep(heap, ru, rv)
       IN CASE s.st = "loop" ->
                 /\ rv' = s.v
                 /\ rsteps' = rsteps + 1
                 /\ UNCHANGED <<rpc, rres>>
            [] s.st = "err" ->
                 /\ Return("ErrSelfRefPtr")
                 /\ UNCHANGED <<rv, rsteps>>
            [] OTHER ->
                 /\ Return("nil")
                 /\ rv' = s.v
                 /\ UNCHANGED rsteps
    /\ UNCHANGED <<heap, heap0, root, rop, recv, rloop, ru, rroot, rcur, rlvl, rfield, rpos, resolveVars, mapVars, accVars>>

\* unmarshalAttr: unmarshalJson of the document's value into the field
WriteField ==
    /\ rpc = "write"
    /\ IF "addr" \in rv.flag
       THEN /\ heap' = unmarshalJsonIface(heap, rv)
            /\ Return("nil")
       ELSE /\ Return("UnmarshalErr")
            /\ UNCHANGED heap
    /\ UNCHANGED <<heap0, root, rop, recv, rloop, ru, rv, rroot, rcur, rlvl, rfield, rpos, rsteps, resolveVars, mapVars, accVars>>

NextRef == Call \/ DerefRoot \/ ParseLevel \/ DerefAnon \/ MapField \/ DerefPath \/ DerefField \/ WriteField

SpecRef == InitRef /\ [][NextRef]_vars

(***************************************************************************)
(* A record marshaled and the document unmarshaled into a zero record of   *)
(* the same type: MarshalResource then UnmarshalResource, or               *)
(* FormatResource then DeformatResource.                                   *)
(***************************************************************************)
InitMap ==
    /\ rec \in Records
    /\ mop \in {"Marshal", "Format"}
    /\ mpc = "start"
    /\ mdoc = newResource
    /\ mwire = NoWire
    /\ mout = ZeroRecord(rec)
    /\ mres = ""
    /\ ResolveIdle
    /\ RefIdle
    /\ AccIdle

MarshalResource ==
    /\ mpc = "start" /\ mop = "Marshal"
    /\ mdoc' = marshalFields(rec, newResource, 1)
    /\ mwire' = MarshalJSON(mdoc')
    /\ mpc' = "marshaled"
    /\ UNCHANGED <<rec, mop, mout, mres, resolveVars, refVars, accVars>>

FormatResource ==
    /\ mpc = "start" /\ mop = "Format"
    /\ mdoc' = marshalFields(rec, newResource, 1)
    /\ mpc' = "marshaled"
    /\ UNCHANGED <<rec, mop, mwire, mout, mres, resolveVars, refVars, accVars>>

UnmarshalResource ==
    /\ mpc = "marshaled" /\ mop = "Marshal"
    /\ LET o == unmarshalFields(rec, mout, UnmarshalJSON(mwire), 1)
       IN /\ mout' = o.v
          /\ mres' = o.st
    /\ mpc' = "done"
    /\ UNCHANGED <<rec, mop, mdoc, mwire, resolveVars, refVars, accVars>>

DeformatResource ==
    /\ mpc = "marshaled" /\ mop = "Format"
    /\ LET o == unmarshalFields(rec, mout, mdoc, 1)
       IN /\ mout' = o.v
          /\ mres' = o.st
    /\ mpc' = "done"
    /\ UNCHANGED <<rec, mop, mdoc, mwire, resolveVars, refVars, accVars>>

NextMap == MarshalResource \/ FormatResource \/ UnmarshalResource \/ DeformatResource

SpecMap == InitMap /\ [][NextMap]_vars

(***************************************************************************)
(* Field access: the four entry points on a record whose fields lie behind *)
(* embedded pointers, from the loop over the resolved fields on.           *)
(***************************************************************************)
Marshalers == {"MarshalResource", "FormatResource"}

Unmarshalers == {"UnmarshalResource", "DeformatResource"}

InitAcc ==
    /\ arec \in AccRecords
    /\ aop \in Marshalers \cup Unmarshalers
    /\ aop \in Unmarshalers => ~Faulty(arec)
    /\ ain \in IF aop \in Unmarshalers THEN DocsFor(arec, Len(arec)) ELSE {newResource}
    /\ apc = "start"
    /\ aout = arec
    /\ adoc = <<>>
    /\ ares = ""
    /\ ai = 0
    /\ ResolveIdle
    /\ RefIdle
    /\ MapIdle

AccMarshal(o) ==
    /\ apc = "start" /\ aop = o
    /\ LET m == marshalAll(arec)
       IN /\ ares' = m.st
          /\ adoc' = m.doc
          /\ ai' = m.i
    /\ apc' = "done"
    /\ UNCHANGED <<arec, aop, ain, aout, resolveVars, refVars, mapVars>>

AccUnmarshal(o) ==
    /\ apc = "start" /\ aop = o
    /\ LET u == unmarshalFieldsAt(arec, ain, 1)
       IN /\ ares' = u.st
          /\ aout' = u.rcd
          /\ ai' = u.i
    /\ apc' = "done"
    /\ UNCHANGED <<arec, aop, ain, adoc, resolveVars, refVars, mapVars>>

AccMarshalResource == AccMarshal("MarshalResource")

AccFormatResource == AccMarshal("FormatResource")

AccUnmarshalResource == AccUnmarshal("UnmarshalResource")

AccDeformatResource == AccUnmarshal("DeformatResource")

NextAcc == AccMarshalResource \/ AccFormatResource \/ AccUnmarshalResource \/ AccDeformatResource

SpecAcc == InitAcc /\ [][NextAcc]_vars

----------------------------------------------------------------------------
(* Properties of field resolution.                                         *)

Resolved == pc \in {"map", "done"} /\ err = ""

SameGroup(f, g) == f.tag.typ = g.tag.typ /\ f.tag.name = g.tag.name

\* f beats g: strictly shallower, or as shallow with a strictly higher name precedence
Beats(f, g) ==
    \/ Len(f.idxs) < Len(g.idxs)
    \/ Len(f.idxs) = Len(g.idxs) /\ f.tag.namePrec > g.tag.namePrec

\* f beats every other collected field of its (kind, name) group
Dominant(f) == \A g \in Range(fields) : (g # f /\ SameGroup(f, g)) => Beats(f, g)

Dominants == {f \in Range(fields) : Dominant(f)}

\* the tag of a declaration that the search has to parse is malformed
BadDecl(f) ==
    LET s == splitTypeAndOpts(f)
    IN /\ s.ok \/ ~f.anon
       /\ f.exported \/ f.anon
       /\ parseTag(f, IF s.ok THEN s.typ ELSE "attr", s.opts).err # ""

\* C1: of the collected fields of one (kind, name) group exactly the one that is
\* strictly shallowest, or among the shallowest has strictly the highest name
\* precedence, is returned; when the two best tie the whole group is dropped
\* without an error; a dropped key is neither marshaled nor written on
\* unmarshal.  Id fields form one group.
C1_Dominance ==
    /\ Resolved => Range(resolved) = Dominants
    /\ (pc = "done" /\ err # "") => \E t \in types : \E i \in 1..Len(tt[t]) : BadDecl(tt[t][i])
    /\ (pc = "done" /\ err = "" /\ op = "marshal") =>
          /\ doc.attributes = {f.tag.name : f \in {g \in Dominants : g.tag.typ = "attr"}}
          /\ doc.id = (\E f \in Dominants : f.tag.typ = "id")
    /\ (pc = "done" /\ err = "" /\ op = "unmarshal") =>
          written = {f.idxs : f \in Dominants}

Tied(f, g) ==
    /\ f # g /\ SameGroup(f, g)
    /\ Len(f.idxs) = Len(g.idxs) /\ f.tag.namePrec = g.tag.namePrec
    /\ \A h \in Range(fields) : SameGroup(f, h) => ~Beats(h, f)

\* a marshal call that dropped a tied attribute group, kept a field that beat a
\* deeper one, and dropped tied ids
C1_Witness ==
    /\ pc = "done" /\ err = "" /\ op = "marshal"
    /\ \E f, g \in Range(fields) : Tied(f, g) /\ f.tag.typ = "attr" /\ f.tag.name \notin doc.attributes
    /\ \E f, g \in Range(fields) : Tied(f, g) /\ f.tag.typ = "id" /\ ~doc.id

\* C2: the returned list has no two entries with the same (kind, name) and no
\* two entries with the same index path.
C2_Unique ==
    Resolved => \A i, j \in 1..Len(resolved) :
        i # j => /\ ~SameGroup(resolved[i], resolved[j])
                 /\ resolved[i].idxs # resolved[j].idxs

\* a returned list of two fields, resolved out of a collision
C2_Witness ==
    /\ Resolved /\ Len(resolved) >= 2
    /\ \E f, g \in Range(fields) : f # g /\ SameGroup(f, g)

\* C8: whatever arrangement the unstable sort leaves equal fields in, the
\* returned list is the same list, in the same order.
C8_Deterministic ==
    Resolved => \A s \in SortFunc(fields) : filterFields(s, 1) = resolved

\* a resolution whose sort had more than one possible outcome and that returned fields
C8_Witness ==
    /\ Resolved /\ Cardinality(SortFunc(fields)) > 1 /\ resolved # <<>>
    /\ Len(fields) >= 3

(***************************************************************************)
(* Properties of the reference model.  They are stated on the locations    *)
(* of the heap (an address and the type it is read at), not on the         *)
(* reflect.Values the code compares.                                       *)
(***************************************************************************)
Loc(a, t) == [a |-> a, typ |-> t]

NoLoc == Loc(NIL, Typ(0, "invalid"))

\* the location a pointer or an interface at location l refers to
succLoc(h, l) ==
    IF l.a \notin Addr THEN NoLoc
    ELSE IF l.typ.stars >= 1
    THEN IF h[l.a].val.to = NIL THEN NoLoc ELSE Loc(h[l.a].val.to, ElemType(l.typ))
    ELSE IF l.typ = TAny /\ h[l.a].val.k = "ptr"
    THEN Loc(h[l.a].val.to, ElemType(h[l.a].val.typ))
    ELSE NoLoc

RECURSIVE IterLoc(_, _, _)
IterLoc(h, l, n) == IF n = 0 THEN l ELSE IterLoc(h, succLoc(h, l), n - 1)

\* following references from l leads back to l
OnCycle(h, l) == l # NoLoc /\ \E n \in 1..(2 * NCells) : IterLoc(h, l, n) = l

\* the location the argument refers to
RootLoc(a) ==
    CASE a.k = "ptr" /\ a.to # NIL -> Loc(a.to, ElemType(a.typ))
      [] a.k = "copy" -> Loc(a.to, a.typ)
      [] OTHER -> NoLoc

\* the first location from l that is neither a pointer nor an interface
RECURSIVE Chase(_, _, _)
Chase(h, l, n) ==
    IF l = NoLoc \/ (l.typ.stars = 0 /\ l.typ.base # "any") THEN l
    ELSE IF n = 0 THEN NoLoc
    ELSE Chase(h, succLoc(h, l), n - 1)

\* the record the argument leads to, and its field 0
RootRecord == Chase(heap0, RootLoc(root), 2 * NCells)

RootField == Loc(RootRecord.a, TAny)

Marshals == rop \in {"MarshalResource", "FormatResource"}

Unmarshals == rop \in {"UnmarshalResource", "DeformatResource"}

\* a dereference loop or the level search has run into its cap
Hung == (rpc \in {"derefRoot", "derefAnon", "derefPath", "derefField"} /\ rsteps >= MaxSteps)
        \/ (rpc = "parseTags" /\ rlvl >= MaxLevels)

SelfRefField == RootRecord.typ.base \in {"T", "TI"} /\ OnCycle(heap0, RootField)

\* C4: marshaling a record whose field 0 (the annotated field of a T, the
\* embedded interface of a TI) starts a chain of pointers and interfaces
\* that leads back to that field neither loops nor returns a document: the
\* call returns ErrSelfRefPtr.
C4_SelfRefMarshal ==
    (Marshals /\ SelfRefField) =>
        /\ ~Hung
        /\ rres \in {"", "ErrSelfRefPtr"}
        /\ rpc = "done" => rres = "ErrSelfRefPtr"

\* reached: MarshalResource returned ErrSelfRefPtr from the dereference of
\* the annotated field of a T that lies on a cycle through two cells
C4_Witness ==
    /\ rop = "MarshalResource" /\ SelfRefField /\ RootRecord.typ.base = "T"
    /\ rpc = "done" /\ rres = "ErrSelfRefPtr" /\ rloop = "field" /\ rsteps >= 2

\* reached: the same from the embedded interface field of a TI
C4_WitnessAnon ==
    /\ rop = "MarshalResource" /\ SelfRefField /\ RootRecord.typ.base = "TI"
    /\ rpc = "done" /\ rres = "ErrSelfRefPtr" /\ rloop = "anon"

\* C5: unmarshaling into a record whose annotated field holds a
\* self-referential chain does not loop and returns no error, and the field
\* then holds the newly decoded value instead of the chain.
C5_SelfRefUnmarshal ==
    (Unmarshals /\ SelfRefField /\ RootRecord.typ.base = "T") =>
        /\ ~Hung
        /\ rres \in {"", "nil"}
        /\ rpc = "done" =>
              /\ rres = "nil"
              /\ heap[RootField.a].val.k = "fresh"
              /\ ~OnCycle(heap, RootField)
              /\ \A a \in Addr \ {RootField.a} : heap[a] = heap0[a]

\* reached: UnmarshalResource has stored the decoded value in a field that
\* was on a cycle
C5_Witness ==
    /\ rop = "UnmarshalResource" /\ SelfRefField /\ RootRecord.typ.base = "T"
    /\ rpc = "done" /\ rres = "nil" /\ heap[RootField.a].val.k = "fresh"

\* a value whose type implements the hook lies on the chain from l
RECURSIVE HookOn(_, _, _)
HookOn(h, l, n) ==
    IF l = NoLoc THEN FALSE
    ELSE IF Implements(l.typ, recv) THEN TRUE
    ELSE IF l.typ = TAny /\ l.a \in Addr /\ h[l.a].val.k \in {"ptr", "val"}
            /\ Implements(h[l.a].val.typ, recv) THEN TRUE
    ELSE IF n = 0 THEN FALSE
    ELSE HookOn(h, succLoc(h, l), n - 1)

\* a value whose type implements the hook is reached from the argument by
\* following zero or more pointers and interfaces
ReachesHook ==
    \/ root.k \in {"ptr", "val"} /\ Implements(root.typ, recv)
    \/ HookOn(heap0, IF root.k = "ptr" THEN RootLoc(root) ELSE NoLoc, 2 * NCells)

\* C9 as stated: whenever a value whose type implements the hook is reached
\* from the argument, MarshalResource and UnmarshalResource return what the
\* hook returns.
C9_HookResult ==
    (rop \in {"MarshalResource", "UnmarshalResource"} /\ ReachesHook /\ rpc = "done")
        => rres = "hook"

\* how the chain from l ends: at a record, at something that is no record
\* (a nil pointer, a nil interface, an int), or not at all
RECURSIVE Ends(_, _, _)
Ends(h, l, n) ==
    IF l = NoLoc THEN "norecord"
    ELSE IF l.typ.stars = 0 /\ l.typ.base # "any"
    THEN IF l.typ.base = "int" THEN "norecord" ELSE "record"
    ELSE IF l.typ = TAny /\ h[l.a].val.k \in {"val", "nil"}
    THEN IF h[l.a].val.k = "val" /\ h[l.a].val.typ.base = "M" THEN "record" ELSE "norecord"
    ELSE IF n = 0 THEN "cycle"
    ELSE Ends(h, succLoc(h, l), n - 1)

\* the argument, after following pointers and interfaces, is not a record
NotRecord ==
    \/ root.k = "nil"
    \/ root.k = "val" /\ root.typ.base = "int"
    \/ root.k = "ptr" /\ Ends(heap0, RootLoc(root), 2 * NCells) = "norecord"

\* the argument is not a pointer that leads to a record
NotRecordPtr ==
    \/ root.k # "ptr"
    \/ Ends(heap0, RootLoc(root), 2 * NCells) = "norecord"

\* C10 as stated: an argument that is not (a pointer to) a record makes the
\* marshaling entry points return ErrNotStruct and the unmarshaling ones
\* ErrNotStructPtr, for a nil argument and a nil pointer as well.
C10_RootErrors ==
    (rpc = "done" /\ ~ReachesHook) =>
        /\ (Marshals /\ NotRecord) => rres = "ErrNotStruct"
        /\ (Unmarshals /\ NotRecordPtr) => rres = "ErrNotStructPtr"

(***************************************************************************)
(* Properties of the mapping of field values.                              *)
(***************************************************************************)
Marshaled == mpc \in {"marshaled", "done"}

FieldIndexes == 1..Len(rec)

\* the field is tagged omitempty and its dereferenced value is empty
Omitted(f) == f.tag.omitempty /\ isEmpty(derefField(f.val))

\* the kinds the round trip is stated for: scalars, structs, slices and
\* arrays, pointers to scalars and pointers to slices
RoundTripType(t) == t.stars = 0 \/ t.base \in {"int", "string", "slice", "bytes"}

\* C3 as stated: unmarshaling what was marshaled into a zero record of the
\* same type succeeds and gives back every field, except that an omitempty
\* field that was empty stays zero.
C3_RoundTrip ==
    (mpc = "done" /\ \A i \in FieldIndexes : RoundTripType(rec[i].val.typ)) =>
        /\ mres = "nil"
        /\ \A i \in FieldIndexes :
              mout[i] = IF Omitted(rec[i]) THEN ZeroOf(rec[i].val.typ) ELSE rec[i].val

\* the declared shape is an array, a slice of something other than bytes,
\* or a pointer to one of these
ToManyShape(t) == t.base \in {"slice", "array"}

\* C6 as stated: a rel field that is not omitted is written to
\* ToManyRelationships if and only if its declared shape is an array, a
\* non-byte slice or a pointer to one, and to ToOneRelationships otherwise,
\* whether or not the reference it holds is nil.
C6_RelByShape ==
    Marshaled =>
        \A i \in FieldIndexes :
            (rec[i].tag.typ = "rel" /\ ~Omitted(rec[i])) =>
                IF ToManyShape(rec[i].val.typ)
                THEN Has(mdoc.ToManyRelationships, rec[i].tag.name)
                     /\ ~Has(mdoc.ToOneRelationships, rec[i].tag.name)
                ELSE Has(mdoc.ToOneRelationships, rec[i].tag.name)
                     /\ ~Has(mdoc.ToManyRelationships, rec[i].tag.name)

\* the value is a nil pointer, or what it points to is the zero value of
\* its kind or an array or slice without elements
EmptyValue(v) ==
    \/ v.typ.stars > 0 /\ v.pnil
    \/ v.typ.base \in {"int", "struct", "array"} /\ \A i \in 1..Len(v.seq) : v.seq[i] = 0
    \/ v.typ.base = "string" /\ v.str = ""
    \/ v.typ.base \in {"slice", "bytes"} /\ v.seq = <<>>

\* the Resource has the key of the field in the section of its kind
KeyPresent(r, f) ==
    CASE f.tag.typ = "id" -> r.Id # NoJson
      [] f.tag.typ = "attr" -> Has(r.Attributes, f.tag.name)
      [] f.tag.typ = "meta" -> Has(r.Meta, f.tag.name)
      [] OTHER -> Has(r.ToOneRelationships, f.tag.name) \/ Has(r.ToManyRelationships, f.tag.name)

\* the same of the JSON document
KeyOnWire(w, f) ==
    CASE f.tag.typ = "id" -> w.Id # NoJson
      [] f.tag.typ = "attr" -> Has(w.Attributes, f.tag.name)
      [] f.tag.typ = "meta" -> Has(w.Meta, f.tag.name)
      [] OTHER -> Has(w.Relationships, f.tag.name)

AnonStructs(t) == {i \in 1..Len(tt[t]) : tt[t][i].anon /\ ~tt[t][i].hasTag /\ tt[t][i].kind = "struct"}

\* the sub-records the type of the record has at embedding depth n, each with
\* the index path that leads to it
RECURSIVE Embedded(_)
Embedded(n) ==
    IF n = 0 THEN {structElem("T", TRUE, <<>>)}
    ELSE UNION {{structElem(tt[e.t][i].elem, TRUE, Append(e.idxs, i)) : i \in AnonStructs(e.t)}
                : e \in Embedded(n - 1)}

\* two different paths of the same length lead to the same type
Ambiguous(e) == \E d \in Embedded(Len(e.idxs)) : d.t = e.t /\ d.idxs # e.idxs

\* the field was found in the struct at the end of path
FoundThrough(f, path) ==
    Len(f.idxs) = Len(path) + 1 /\ SubSeq(f.idxs, 1, Len(path)) = path

\* C15 as stated: when a sub-record type is visited more than once at one
\* level, no field found through any of those visits at that level is in the
\* returned list, whichever of the instances are live and whichever are nil
\* embedded pointers.
C15_Elimination ==
    Resolved =>
        \A n \in 1..MaxLevels : \A e \in Embedded(n) :
            Ambiguous(e) => \A i \in 1..Len(resolved) : ~FoundThrough(resolved[i], e.idxs)

\* the fields of a struct that are handed to parseTag
Parsed(t) ==
    {i \in 1..Len(tt[t]) :
        /\ tt[t][i].hasTag \/ ~tt[t][i].anon
        /\ tt[t][i].exported \/ tt[t][i].anon
        /\ ~(tt[t][i].hasTag /\ Cut(tt[t][i].tag).fst = "-")}

\* the directive of field i of the struct e
Directive(e, i) ==
    LET s == splitTypeAndOpts(tt[e.t][i])
    IN Field(parseTag(tt[e.t][i], IF s.ok THEN s.typ ELSE "attr", s.opts).tag, Append(e.idxs, i))

\* the fields parseTags collects from an instance of the type of the record
\* in which every embedded pointer is set
TypeFields ==
    UNION {UNION {{Directive(e, i) : i \in Parsed(e.t)} : e \in Embedded(n)} : n \in 0..MaxLevels}

RECURSIVE SeqOf(_)
SeqOf(S) == IF S = {} THEN <<>> ELSE LET x == CHOOSE y \in S : TRUE IN <<x>> \o SeqOf(S \ {x})

\* the list parseTags returns for that instance
TypeResolved == filterFields(CHOOSE q \in SortFunc(SeqOf(TypeFields)) : TRUE, 1)

\* no tag of the type of the record is malformed
TypeParses == \A n \in 0..MaxLevels : \A e \in Embedded(n) : \A i \in 1..Len(tt[e.t]) : ~BadDecl(tt[e.t][i])

\* C16 as stated: the returned list depends on the type of the record only;
\* whichever embedded pointers of the instance are nil, it is the list
\* returned for the instance in which none is.
C16_TypeOnly ==
    (pc \in {"map", "done"} /\ TypeParses) => (err = "" /\ resolved = TypeResolved)

\* the field is tagged string, is written, and holds an int directly or
\* through a pointer
QuotedNumber(f) ==
    /\ f.tag.quote /\ ~Omitted(f)
    /\ derefField(f.val) # NoValue /\ derefField(f.val).typ.base = "int"

\* the field is a to-many rel tagged string over a slice with elements
QuotedElems(f) ==
    /\ f.tag.quote /\ ~Omitted(f) /\ f.tag.typ = "rel"
    /\ f.val.typ = Typ(0, "slice") /\ Len(f.val.seq) >= 1

\* neither the field nor, for a rel, its elements are numbers
OtherKind(f) ==
    /\ derefField(f.val) = NoValue \/ derefField(f.val).typ.base # "int"
    /\ ~(f.tag.typ = "rel" /\ f.val.typ.base \in {"slice", "array"})

\* the JSON the Resource holds for a field that is not a to-many rel
Emitted(r, f) ==
    CASE f.tag.typ = "id" -> r.Id
      [] f.tag.typ = "attr" -> Get(r.Attributes, f.tag.name)
      [] f.tag.typ = "meta" -> Get(r.Meta, f.tag.name)
      [] OTHER -> Get(r.ToOneRelationships, f.tag.name).Id

\* the number n between one pair of quotes
QuotedJson(n) == Json("str", <<>>, Itoa(n))

\* the record with the string option taken off every tag
Unquoted(rcd) == [i \in 1..Len(rcd) |-> [rcd[i] EXCEPT !.tag.quote = FALSE]]

\* the Resource the unmarshaling call read
ResourceRead == IF mop = "Marshal" THEN UnmarshalJSON(mwire) ELSE mdoc

\* C13 as stated: with the string option a number held directly or through a
\* pointer is emitted between one pair of quotes, as an id, attr, meta, to-one
\* rel or element of a to-many rel, and unmarshaling that output restores it;
\* on any other kind the option changes nothing in either direction.
C13_StringOption ==
    /\ (Marshaled /\ \A i \in FieldIndexes : QuotedNumber(rec[i]) \/ QuotedElems(rec[i])) =>
          /\ \A i \in FieldIndexes :
                IF QuotedNumber(rec[i])
                THEN Emitted(mdoc, rec[i]) = QuotedJson(derefField(rec[i].val).seq[1])
                ELSE \A k \in 1..Len(rec[i].val.seq) :
                        Get(mdoc.ToManyRelationships, rec[i].tag.name)[k].Id = QuotedJson(rec[i].val.seq[k])
          /\ mpc = "done" => (mres = "nil" /\ mout = [i \in FieldIndexes |-> rec[i].val])
    /\ (Marshaled /\ \A i \in FieldIndexes : OtherKind(rec[i])) =>
          /\ mdoc = marshalFields(Unquoted(rec), newResource, 1)
          /\ mpc = "done" =>
                LET o == unmarshalFields(Unquoted(rec), ZeroRecord(rec), ResourceRead, 1)
                IN mres = o.st /\ mout = o.v

----------------------------------------------------------------------------
(* Field access (SpecAcc).                                                 *)

AccIndexes == 1..Len(arec)

\* an embedded pointer on the path of the field is nil
NilPath(fld) == fld.live < fld.depth - 1

\* the data the Resource has for a field
DataOf(r, fld) ==
    IF fld.tag.typ = "rel" /\ ~isToOne(fld.val)
    THEN Get(r.ToManyRelationships, fld.tag.name)[1].Id
    ELSE Emitted(r, fld)

\* C17 as stated: reading a field whose path passes through a nil embedded
\* pointer does not crash: MarshalResource and FormatResource marshal it as
\* null, or leave it out under omitempty, and unmarshalRel classifies it.
C17_ReadNil ==
    /\ (apc = "done" /\ aop \in Marshalers /\ ~Faulty(arec)) =>
          IF ares # "nil" \/ adoc = <<>> THEN FALSE
          ELSE \A i \in AccIndexes :
                  NilPath(arec[i]) =>
                      IF arec[i].tag.omitempty THEN ~KeyPresent(adoc[1], arec[i])
                      ELSE KeyPresent(adoc[1], arec[i]) /\ Emitted(adoc[1], arec[i]) = NullJson
    /\ (apc = "done" /\ aop \in Unmarshalers) => ares # "panic"

\* C18 as stated: when an unmarshaling call writes a field the document has
\* data for, every nil pointer on its path and the field itself, if it is a
\* nil pointer, are allocated, and the field holds the decoded value.
C18_WriteNil ==
    (apc = "done" /\ aop \in Unmarshalers
        /\ \A i \in AccIndexes : HasData(arec[i], ain) => DataOf(ain, arec[i]) = GoodJson) =>
        \A i \in AccIndexes :
            HasData(arec[i], ain) =>
                /\ aout[i].live = aout[i].depth - 1
                /\ ~aout[i].val.pnil /\ ~aout[i].val.nil
                /\ aout[i].val.seq = <<1>>

\* C19 as stated: a field whose key the document does not have, and every
\* pointer on its path, are left as they were, and unmarshaling the empty
\* document returns no error and changes nothing.
C19_Frame ==
    (apc = "done" /\ aop \in Unmarshalers) =>
        /\ \A i \in AccIndexes : ~KeyPresent(ain, arec[i]) => aout[i] = arec[i]
        /\ ain = newResource => (ares = "nil" /\ aout = arec)

\* the error the field fails with when the loop takes it up
FailsWith(fld) ==
    IF aop \in Marshalers
    THEN CASE fld.val = SelfRef -> "ErrSelfRefPtr"
           [] fld.val = NaN -> "MarshalErr"
           [] OTHER -> ""
    ELSE IF HasData(fld, ain) /\ DataOf(ain, fld) = WrongJson THEN "UnmarshalErr" ELSE ""

\* C20: the first field that fails ends the loop over the fields and its
\* error is returned; the fields after it are not taken up, an unmarshaling
\* call leaves them as they were, and a marshaling call that returns an error
\* returns nil, not the Resource it had begun to fill.
C20_FailFast ==
    (apc = "done" /\ ares # "panic") =>
        /\ ares = "nil" => (ai = Len(arec) /\ \A i \in AccIndexes : FailsWith(arec[i]) = "")
        /\ ares # "nil" =>
              /\ ai \in AccIndexes /\ ares = FailsWith(arec[ai])
              /\ \A j \in 1..(ai - 1) : FailsWith(arec[j]) = ""
              /\ aop \in Marshalers => adoc = <<>>
              /\ aop \in Unmarshalers => \A j \in (ai + 1)..Len(arec) : aout[j] = arec[j]

\* reached: FormatResource wrote the first field to the Resource, failed on
\* the second and returned nil with the error
C20_Witness ==
    /\ apc = "done" /\ aop = "FormatResource" /\ Len(arec) = 2
    /\ ~NilPath(arec[1]) /\ FailsWith(arec[1]) = "" /\ ~arec[1].tag.omitempty
    /\ arec[2].val = NaN
    /\ ares = "MarshalErr" /\ ai = 2 /\ adoc = <<>>

----------------------------------------------------------------------------
(* Tag parsing (SpecTag).                                                  *)

\* the k-th comma-separated token of a tag, empty if there is none
Token(s, k) == IF Len(s) >= k THEN s[k] ELSE ""

\* the one field of the record type
TheDecl == tt["T"][1]

Supported(d) == d.kind \notin {"func", "chan", "complex"}

\* the kind token is none of the five, or the resource type of an id or a
\* rel tag is missing
MalformedTag(d) ==
    /\ d.hasTag
    /\ \/ Token(d.tag, 1) \notin {"id", "attr", "rel", "meta", "-"}
       \/ Token(d.tag, 1) = "id" /\ Token(d.tag, 2) = ""
       \/ Token(d.tag, 1) = "rel" /\ Token(d.tag, 3) = ""

\* the field is mapped: exported, and tagged with something other than "-"
\* or untagged and not embedded
Mapped(d) ==
    /\ d.exported
    /\ \/ d.hasTag /\ Token(d.tag, 1) # "-"
       \/ ~d.hasTag /\ ~d.anon

NothingMapped == resolved = <<>> /\ doc = EmptyDoc /\ written = {}

C12_Unsupported ==
    (level >= 1 /\ Mapped(TheDecl) /\ ~Supported(TheDecl)) =>
        (pc = "done" /\ err = "UnsupportedTypeErr" /\ NothingMapped)

\* reached: UnmarshalResource refused a pointer to a function whose rel tag
\* has no resource type
C12_Witness ==
    /\ level >= 1 /\ op = "unmarshal" /\ TheDecl.exported
    /\ TheDecl.kind = "func" /\ TheDecl.ptr /\ TheDecl.tag = <<"rel", "n">>
    /\ err = "UnsupportedTypeErr" /\ pc = "done"

\* the directive kind of a declaration that carries a name
NamedKind(d) ==
    IF ~d.hasTag THEN IF d.anon THEN "" ELSE "attr"
    ELSE IF Token(d.tag, 1) \in {"attr", "meta"} THEN Token(d.tag, 1)
    ELSE IF Token(d.tag, 1) = "rel" /\ Token(d.tag, 3) # "" THEN "rel"
    ELSE ""

\* the name token of the jsonapi tag
NameToken(d) == IF d.hasTag THEN Token(d.tag, 2) ELSE ""

ExpectedName(d) ==
    IF NameToken(d) # "" THEN NameToken(d)
    ELSE IF Token(d.json, 1) # "" THEN Token(d.json, 1)
    ELSE d.name

ExpectedPrec(d) ==
    IF NameToken(d) # "" THEN 3 ELSE IF Token(d.json, 1) # "" THEN 2 ELSE 1

\* C14: the directive of an attr, rel or meta field, or of an untagged field
\* that is not embedded, is named by the name token of the jsonapi tag with
\* precedence 3, else by the name of the json tag with precedence 2, else by
\* the declared name with precedence 1; the document key is that name.
C14_NamePrec ==
    (level >= 1 /\ TheDecl.exported /\ Supported(TheDecl) /\ NamedKind(TheDecl) # "") =>
        /\ err = ""
        /\ Len(fields) = 1
        /\ fields[1].tag.typ = NamedKind(TheDecl)
        /\ fields[1].tag.name = ExpectedName(TheDecl)
        /\ fields[1].tag.namePrec = ExpectedPrec(TheDecl)
        /\ pc \in {"map", "done"} => resolved = fields
        /\ (pc = "done" /\ op = "marshal" /\ NamedKind(TheDecl) = "attr") =>
              doc.attributes = {ExpectedName(TheDecl)}

\* reached: MarshalResource wrote the attribute of a field tagged
\* "attr,,omitempty" under the name of its json tag
C14_Witness ==
    /\ pc = "done" /\ op = "marshal"
    /\ TheDecl.tag = <<"attr", "", "omitempty">> /\ TheDecl.json = <<"j">>
    /\ doc.attributes = {"j"} /\ resolved[1].tag.namePrec = 2

(***************************************************************************)
(* Properties of the relationship maps.                                    *)
(***************************************************************************)
\* the maps of the Resource that have the field's name as a key
WrittenTo(r, f) ==
    {m \in {"ToOneRelationships", "ToManyRelationships"} : Has(r[m], f.tag.name)}

\* the map unmarshalRel takes the field's linkage from: isToOne of the
\* field as fieldByIndex returns it
ReadFrom(v) == IF isToOne(v) THEN "ToOneRelationships" ELSE "ToManyRelationships"

\* C21 as stated: for every shape of a rel field, the map marshal wrote the
\* relationship to is the map unmarshal reads it from.
C21_SameClass ==
    Marshaled =>
        \A i \in FieldIndexes :
            rec[i].tag.typ = "rel" =>
                WrittenTo(mdoc, rec[i]) \subseteq {ReadFrom(ZeroOf(rec[i].val.typ))}

(***************************************************************************)
(* Document decoding: Resource.UnmarshalJSON on a document whose           *)
(* relationships object has up to two entries.  json.Unmarshal leaves each *)
(* entry in a relAlias: its meta, its links and the raw bytes of its data  *)
(* member, of length 0 when the entry has no data member.  Raw data keeps  *)
(* its first byte and what it decodes to.                                  *)
(***************************************************************************)
relAlias(meta, data, links) == [Meta |-> meta, Data |-> data, Links |-> links]

RawData(first, one, many) == [first |-> first, one |-> one, many |-> many]

NoId == ResourceIdentifier("", NoJson)

\* the data members: an object, an array of 0 to 2 objects, null, a number,
\* a string, and no data member at all
DataMembers ==
    {RawData("{", ResourceIdentifier("t", GoodJson), <<>>)}
    \cup {RawData("[", NoId, ids) :
            ids \in {<<>>, <<ResourceIdentifier("t", GoodJson)>>,
                     <<ResourceIdentifier("t", GoodJson), ResourceIdentifier("t", WrongJson)>>}}
    \cup {RawData(b, NoId, <<>>) : b \in {"n", "1", "\"", ""}}

RelAliases == {relAlias(m, d, l) : m \in {{}, {"m"}}, d \in DataMembers, l \in {{}, {"l"}}}

\* the relationships objects: the names a and b, each absent or present
Relationships ==
    {{}} \cup {{Entry("a", x)} : x \in RelAliases} \cup {{Entry("b", x)} : x \in RelAliases}
    \cup {{Entry("a", x), Entry("b", y)} : x \in RelAliases, y \in RelAliases}

\* a ToOneResourceLinkage / ToManyResourceLinkage
Linkage(meta, data, links) == [Meta |-> meta, Data |-> data, Links |-> links]

\* the switch on rel.Data[0] (jsonapi.go 206-229); indexing raw data of
\* length 0 panics
decodeRel(rel) ==
    IF rel.Data.first = "" THEN "panic"
    ELSE CASE rel.Data.first = "[" -> "many"
           [] rel.Data.first = "{" -> "one"
           [] OTHER -> "err"

\* the Resource after the entries in done were taken up
decoded(w, done) ==
    [Type |-> w.Type, Id |-> w.Id, Meta |-> w.Meta, Attributes |-> w.Attributes,
     ToOneRelationships |->
        {Entry(e.k, Linkage(e.v.Meta, e.v.Data.one, e.v.Links)) : e \in {x \in done : decodeRel(x.v) = "one"}},
     ToManyRelationships |->
        {Entry(e.k, Linkage(e.v.Meta, e.v.Data.many, e.v.Links)) : e \in {x \in done : decodeRel(x.v) = "many"}}]

\* the loop over a.Relationships (jsonapi.go 205-230).  A Go map is ranged
\* over in an unspecified order: the call ends at whichever entry that cannot
\* be stored comes first, after any of the others
decodeRelationships(w) ==
    LET good == {e \in w.Relationships : decodeRel(e.v) \in {"one", "many"}}
        bad == w.Relationships \ good
    IN IF bad = {} THEN {Outcome("nil", decoded(w, good))}
       ELSE {Outcome(decodeRel(e.v), decoded(w, done)) : e \in bad, done \in SUBSET good}

InitWire ==
    /\ rec = <<>>
    /\ mop = "UnmarshalJSON"
    /\ mpc = "encoded"
    /\ mdoc = newResource
    /\ \E rels \in Relationships : mwire = [NoWire EXCEPT !.Relationships = rels]
    /\ mout = <<>>
    /\ mres = ""
    /\ ResolveIdle
    /\ RefIdle
    /\ AccIdle

\* Resource.UnmarshalJSON of the document
DecodeResource ==
    /\ mpc = "encoded" /\ mop = "UnmarshalJSON"
    /\ \E o \in decodeRelationships(mwire) :
          /\ mdoc' = o.v
          /\ mres' = o.st
    /\ mpc' = "done"
    /\ UNCHANGED <<rec, mop, mwire, mout, resolveVars, refVars, accVars>>

NextWire == DecodeResource

SpecWire == InitWire /\ [][NextWire]_vars

\* the entries of the document whose data member has the first byte b
WithFirst(bs) == {e \in mwire.Relationships : e.v.Data.first \in bs}

\* C22 as stated: every entry whose data is an object is stored in
\* ToOneRelationships and every entry whose data is an array in
\* ToManyRelationships, and nothing else is, each with its meta and links;
\* a document with an entry whose data is null, a scalar or missing is
\* answered with an error.
C22_Decoding ==
    (mop = "UnmarshalJSON" /\ mpc = "done") =>
        IF WithFirst({"{", "["}) = mwire.Relationships
        THEN /\ mres = "nil"
             /\ mdoc.ToOneRelationships =
                   {Entry(e.k, Linkage(e.v.Meta, e.v.Data.one, e.v.Links)) : e \in WithFirst({"{"})}
             /\ mdoc.ToManyRelationships =
                   {Entry(e.k, Linkage(e.v.Meta, e.v.Data.many, e.v.Links)) : e \in WithFirst({"["})}
        ELSE mres = "err"

----------------------------------------------------------------------------
(* Nil references on marshal (SpecMap).                                    *)

\* the value, after following its pointer, is a nil pointer or a nil slice
NilReference(v) ==
    \/ derefField(v) = NoValue
    \/ derefField(v).typ.base \in {"slice", "bytes"} /\ v.nil

\* an id, attr or meta field, or a rel field whose shape is to-one
SingleValued(f) == ~(f.tag.typ = "rel" /\ ToManyShape(f.val.typ))

\* the JSON the document on the wire holds for such a field
OnWire(w, f) ==
    CASE f.tag.typ = "id" -> w.Id
      [] f.tag.typ = "attr" -> Get(w.Attributes, f.tag.name)
      [] f.tag.typ = "meta" -> Get(w.Meta, f.tag.name)
      [] OTHER -> Get(w.Relationships, f.tag.name).one.Id

\* C23: on marshal an id, attr, meta or to-one rel field that is not omitted
\* and holds a nil reference is written as JSON null under its key (for a rel
\* as the id of a to-one linkage of the directive's type), in the Resource
\* and in the document; an id field sets the document's type, whether its
\* value is written, null or omitted.
C23_NullEmitted ==
    Marshaled =>
        \A i \in FieldIndexes :
            /\ rec[i].tag.typ = "id" =>
                  /\ mdoc.Type = rec[i].tag.rscType
                  /\ mop = "Marshal" => mwire.Type = rec[i].tag.rscType
            /\ (SingleValued(rec[i]) /\ ~Omitted(rec[i]) /\ NilReference(rec[i].val)) =>
                  /\ KeyPresent(mdoc, rec[i])
                  /\ Emitted(mdoc, rec[i]) = NullJson
                  /\ rec[i].tag.typ = "rel" =>
                        /\ Get(mdoc.ToOneRelationships, rec[i].tag.name).Type = rec[i].tag.rscType
                        /\ ~Has(mdoc.ToManyRelationships, rec[i].tag.name)
                  /\ mop = "Marshal" =>
                        (KeyOnWire(mwire, rec[i]) /\ OnWire(mwire, rec[i]) = NullJson)

\* reached: MarshalResource has written the id of a record whose id field is
\* a nil pointer as null, and the type beside it
C23_Witness ==
    /\ mpc = "marshaled" /\ mop = "Marshal"
    /\ rec[1].tag.typ = "id" /\ ~rec[1].tag.omitempty
    /\ rec[1].val.typ = Typ(1, "int") /\ rec[1].val.pnil
    /\ mwire.Id = NullJson /\ mwire.Type = "t"

\* reached: the id was omitted and the type is written all the same
C23_WitnessOmitted ==
    /\ mpc = "marshaled" /\ mop = "Marshal"
    /\ rec[1].tag.typ = "id" /\ rec[1].tag.omitempty /\ rec[1].val.pnil
    /\ mwire.Id = NoJson /\ mwire.Type = "t"

(***************************************************************************)
(* Termination on the reference model (SpecRef).  A heap of NCells cells   *)
(* has no chain of distinct records longer than NCells, and MaxLevels and  *)
(* MaxSteps exceed what a search or a loop that ends needs: a call at its  *)
(* cap is a call that does not end.                                        *)
(***************************************************************************)
\* the level loop of parseTags has run into its cap
LevelsHung == rpc = "parseTags" /\ rlvl >= MaxLevels

\* C24 as stated: parseTags finishes on every record, also on one whose
\* embedded field leads back to an enclosing record: the queue of the
\* breadth-first search becomes empty after finitely many levels.
C24_Terminates == ~LevelsHung

\* a dereference loop has run into its cap
LoopHung == rpc \in {"derefRoot", "derefAnon", "derefPath", "derefField"} /\ rsteps >= MaxSteps

\* C25 as stated: every call of derefValue and derefInput ends, with a value
\* that is no reference or with ErrSelfRefPtr, also when the chain it follows
\* enters a cycle that the value it started from is not part of.
C25_LoopsEnd == ~LoopHung

----------------------------------------------------------------------------
(* To-many relationships.  The record has one rel field that is a []int,   *)
(* a []*int or a [2]int; a slice has a length and a capacity.  The         *)
(* document is a linkage of up to MaxIds identifiers.                      *)
MaxCap == 3             \* the largest capacity of a slice

MaxIds == 2             \* the most identifiers of a linkage

\* a slice value of capacity c
Slice(b, isnil, seq, c) ==
    [typ |-> Typ(0, b), pnil |-> FALSE, nil |-> isnil, seq |-> seq, str |-> "", cap |-> c]

ElemsOf(b) == IF b = "ptrs" THEN {NilElem, 1, 2} ELSE {1, 2}

SeqsOf(S, n) == UNION {[1..k -> S] : k \in 0..n}

Collections ==
    UNION {{Slice(b, TRUE, <<>>, 0)}
           \cup {Slice(b, FALSE, q, c) : q \in SeqsOf(ElemsOf(b), MaxIds), c \in 0..MaxCap}
                : b \in {"slice", "ptrs"}}
    \cup {GoVal(Typ(0, "array"), FALSE, FALSE, q, "") : q \in {<<0, 0>>, <<1, 2>>}}

ManyFields ==
    {AccField(Tag("rel", "a", 3, "t", q, o), v, 1, 0) :
        q \in BOOLEAN, o \in BOOLEAN, v \in {c \in Collections : Len(c.seq) <= Cap(c)}}

\* the id of a document for the number n, as the field's tag has it written
IdJson(quote, n) == IF quote THEN Json("str", <<>>, Itoa(n)) ELSE Json("num", <<n>>, "")

\* the documents for a to-many field: no linkage, or one whose ids are
\* numbers or of the wrong JSON type
Linkages(fld) ==
    {newResource}
    \cup {[newResource EXCEPT !.ToManyRelationships =
                Put(@, fld.tag.name, [i \in 1..Len(ids) |-> ResourceIdentifier(fld.tag.rscType, ids[i])])] :
            ids \in SeqsOf({IdJson(fld.tag.quote, 1), IdJson(fld.tag.quote, 2), Json("obj", <<0>>, "")}, MaxIds)}

InitMany ==
    /\ \E f \in ManyFields : arec = <<f>>
    /\ aop \in {"MarshalResource", "FormatResource", "UnmarshalResource", "DeformatResource"}
    /\ ain \in (IF aop \in Unmarshalers THEN Linkages(arec[1]) ELSE {newResource})
    /\ apc = "start"
    /\ aout = <<>>
    /\ adoc = <<>>
    /\ ares = ""
    /\ ai = 0
    /\ ResolveIdle
    /\ RefIdle
    /\ MapIdle

SpecMany == InitMany /\ [][NextAcc]_vars

\* the record is one to-many rel field
ToMany == Len(arec) = 1 /\ arec[1].tag.typ = "rel" /\ ~isToOne(arec[1].val)

\* the identifiers the document has for the field
IdsOf(r, fld) ==
    IF Has(r.ToManyRelationships, fld.tag.name) THEN Get(r.ToManyRelationships, fld.tag.name) ELSE <<>>

\* the number an id denotes
IdNumber(j) == IF j.j = "num" THEN j.seq[1] ELSE Atoi(j.str)

ManyUnmarshaled == apc = "done" /\ aop \in Unmarshalers /\ ToMany /\ Len(IdsOf(ain, arec[1])) >= 1

\* C26: for a to-many rel field and a linkage of n >= 1 identifiers the call
\* does not panic, whatever the length and the capacity of the field were,
\* and when it returns nil the field has length n and element i holds the
\* number of identifier i.
C26_ToManyUnmarshal ==
    ManyUnmarshaled =>
        /\ ares # "panic"
        /\ ares = "nil" =>
              LET ids == IdsOf(ain, arec[1])
              IN /\ Len(aout[1].val.seq) = Len(ids)
                 /\ \A i \in 1..Len(ids) : aout[1].val.seq[i] = IdNumber(ids[i].Id)

ManyMarshaled == apc = "done" /\ aop \notin Unmarshalers /\ ToMany

\* marshalRel returns before the linkage is written
EmptyOmitted(fld) == fld.tag.omitempty /\ isEmpty(fld.val)

\* the JSON of element e of a collection: null for a nil pointer, else the
\* number, as a string under the string option
ElemJson(e, quote) ==
    IF e = NilElem THEN NullJson
    ELSE IF quote THEN Json("str", <<>>, Itoa(e)) ELSE Json("num", <<e>>, "")

----------------------------------------------------------------------------
(* Embedded fields.  The record type T has one field, embedded or plain,   *)
(* exported or not, tagged or not, whose type is the struct A, a named     *)
(* int or a named func, or a pointer to one; A has one field.              *)
EmbTags == {<<"attr", "n">>, <<"attr">>, <<"meta", "n">>, <<"id", "t">>, <<"rel", "n", "t">>, <<"-">>}

EmbKinds == {"struct", "int", "func"}

EmbFieldDecls ==
    {Decl("Y", e, a, TRUE, t, <<>>, k, p, IF k = "struct" THEN "A" ELSE "") :
        e \in BOOLEAN, a \in BOOLEAN, t \in EmbTags, k \in EmbKinds, p \in BOOLEAN}
    \cup {Decl("Y", e, a, FALSE, <<>>, <<>>, k, p, IF k = "struct" THEN "A" ELSE "") :
        e \in BOOLEAN, a \in BOOLEAN, k \in EmbKinds, p \in BOOLEAN}

InitEmb ==
    /\ \E d \in EmbFieldDecls, l \in LeafDecls :
          tt = [t \in TypeNames |-> CASE t = "T" -> <<d>>
                                      [] t = "A" -> IF d.kind = "struct" THEN <<l>> ELSE <<>>
                                      [] OTHER -> <<>>]
    /\ nilAt \in SUBSET PtrSites(tt)
    /\ op \in {"marshal", "unmarshal"}
    /\ pc = "parseTags"
    /\ next = <<structElem("T", TRUE, <<>>)>>
    /\ fields = <<>>
    /\ types = {}
    /\ level = 0
    /\ sorted = <<>>
    /\ resolved = <<>>
    /\ err = ""
    /\ doc = EmptyDoc
    /\ written = {}
    /\ RefIdle
    /\ MapIdle
    /\ AccIdle

SpecEmb == InitEmb /\ [][Next]_vars

\* the declaration an index path leads to from the type t
RECURSIVE DeclAt(_, _)
DeclAt(t, idxs) ==
    IF Len(idxs) = 1 THEN tt[t][idxs[1]] ELSE DeclAt(tt[t][idxs[1]].elem, Tail(idxs))

\* C28: no field that parseTags returns is declared unexported: neither a
\* plain unexported field, tagged or not, nor an unexported embedded field,
\* also when it carries a jsonapi tag.
C28_ExportedOnly ==
    Resolved => \A i \in 1..Len(resolved) : DeclAt("T", resolved[i].idxs).exported

Returned == pc \in {"map", "done"}

\* C29: an embedded field with a well-formed id, attr, rel or meta tag is
\* returned as one field of that kind and the search does not enter it; a
\* field tagged "-", embedded or plain and of any type, gives no field, no
\* child and no error; an embedded field without a tag whose type is not a
\* struct gives nothing.
C29_TagStopsDescent ==
    LET d == TheDecl
        k == Token(d.tag, 1)
    IN /\ (Returned /\ d.anon /\ d.hasTag /\ k \in FieldKinds /\ Supported(d) /\ ~MalformedTag(d)) =>
              /\ err = ""
              /\ Len(resolved) = 1
              /\ resolved[1].idxs = <<1>>
              /\ resolved[1].tag.typ = k
              /\ next = <<>>
       /\ (Returned /\ d.hasTag /\ k = "-") => (err = "" /\ NothingMapped /\ next = <<>>)
       /\ (Returned /\ d.anon /\ ~d.hasTag /\ d.kind # "struct") => (err = "" /\ NothingMapped /\ next = <<>>)

\* an embedded struct tagged attr, whose own field is tagged attr too, was
\* marshaled as the one attribute n
C29_Witness ==
    /\ pc = "done" /\ op = "marshal" /\ err = ""
    /\ TheDecl.anon /\ TheDecl.exported /\ TheDecl.kind = "struct" /\ TheDecl.tag = <<"attr", "n">>
    /\ tt["A"][1].name = "F"
    /\ Len(resolved) = 1 /\ resolved[1].tag.name = "n"

\* an embedded func type tagged "-" was passed over without an error
C29_WitnessIgnored ==
    /\ pc = "done" /\ err = ""
    /\ TheDecl.anon /\ TheDecl.kind = "func" /\ TheDecl.tag = <<"-">>

----------------------------------------------------------------------------
(* The string option on unmarshal.  The record has one id, attr, rel or    *)
(* meta field that is an int or a *int, with or without the string option; *)
(* the document has for it a bare number of one, two or three digits,      *)
(* null, or a string.                                                      *)
BareNumbers == {1, 12, 123}

QuoteFields ==
    {AccField(Tag(k, IF k = "id" THEN "" ELSE "a", IF k = "id" THEN 0 ELSE 3,
                  IF k \in {"id", "rel"} THEN "t" ELSE "", q, FALSE), v, 1, 0) :
        k \in FieldKinds, q \in BOOLEAN,
        v \in {Int1, ZeroOf(Typ(0, "int")), ZeroOf(Typ(1, "int")), GoVal(Typ(1, "int"), FALSE, FALSE, <<1>>, "")}}

QuoteDocs(fld) ==
    {newResource}
    \cup {WithData(newResource, fld, j) :
            j \in {Json("num", <<n>>, "") : n \in BareNumbers}
                  \cup {NullJson, Json("str", <<>>, "2"), WrongJson}}

InitQuote ==
    /\ \E f \in QuoteFields : arec = <<f>>
    /\ aop \in {"MarshalResource", "FormatResource", "UnmarshalResource", "DeformatResource"}
    /\ ain \in (IF aop \in Unmarshalers THEN QuoteDocs(arec[1]) ELSE {newResource})
    /\ apc = "start"
    /\ aout = <<>>
    /\ adoc = <<>>
    /\ ares = ""
    /\ ai = 0
    /\ ResolveIdle
    /\ RefIdle
    /\ MapIdle

SpecQuote == InitQuote /\ [][NextAcc]_vars

\* the one field has the string option and the document has for it a bare
\* number or null
BareData(r, fld) ==
    /\ fld.tag.quote
    /\ HasData(fld, r)
    /\ DataOf(r, fld).j \in {"num", "null"}

\* C30: unmarshaling a string-tagged int or *int field from a bare number
\* or null does not panic, and it fails with UnmarshalErr, or leaves the
\* field as it was, or stores the number the document has.
C30_NoWrongNumber ==
    (apc = "done" /\ aop \in Unmarshalers /\ BareData(ain, arec[1])) =>
        /\ ares # "panic"
        /\ \/ ares = "UnmarshalErr"
           \/ aout[1].val = arec[1].val
           \/ DataOf(ain, arec[1]).j = "num" /\ aout[1].val.seq = DataOf(ain, arec[1]).seq

====
